---------------------------- MODULE Spec2Model ----------------------------
(***************************************************************************)
(* Model of the code-analysis engine of Q-AnalyzerX: language detection,   *)
(* the five per-notation parsers, the unified-AST builder, the quantum     *)
(* analyzer and the /analyze request handler.                              *)
(*                                                                         *)
(* Source text is modelled at the level of lexemes: a text is a non-empty  *)
(* sequence of lines (the result of code.split('\n')), a line is a         *)
(* sequence of tokens.  A token is a maximal run of word characters, a     *)
(* whitespace character (" "), or one punctuation symbol.  Every regular   *)
(* expression of the source is translated to a pattern over tokens and     *)
(* matched as the regex engine matches it                                  *)
(* (leftmost match, greedy repetition).  Catalogue tokens are whole        *)
(* lexemes: no pattern literal is a proper substring of a catalogue token. *)
(***************************************************************************)
EXTENDS Integers, Sequences, FiniteSets, TLC

(***************************************************************************)
(* Bounds of the model.                                                    *)
(***************************************************************************)
\* submitted texts have at most MaxLines lines
MaxLines == 2
\* number of requests the sequential server handles in SeqSpec
MaxCalls == 3
\* AstSpec: gate lists have at most MaxGates gates, registers at most
\* MaxQubits qubits in total
MaxGates == 4
MaxQubits == 16

(***************************************************************************)
(* Lexemes.                                                                *)
(***************************************************************************)
NL == "NL"
WsToks == {" ", NL}
Punct == {".", "(", ")", ",", "[", "]", ";", "=", "==", "{", "}", ":", "#",
          "//", "->", "...", "'", "\"", "*", "!", "^"}
Digits == {"0", "1", "2", "3"}

IsWs(tok) == tok \in WsToks
\* \w+ : a token made of word characters (letters, digits, underscore)
IsWord(tok) == tok \notin WsToks /\ tok \notin Punct
\* \d+ : a token made of decimal digits
IsDigits(tok) == tok \in Digits

\* int(s) for a digit token
IntOf(tok) ==
  CASE tok = "0" -> 0
    [] tok = "1" -> 1
    [] tok = "2" -> 2
    [] tok = "3" -> 3

\* str.lower() / str.upper() on the identifiers the catalogue uses
Lower(tok) ==
  CASE tok = "H" -> "h"
    [] tok = "X" -> "x"
    [] tok = "CX" -> "cx"
    [] tok = "CNOT" -> "cnot"
    [] tok = "CZ" -> "cz"
    [] tok = "SWAP" -> "swap"
    [] tok = "TOFFOLI" -> "toffoli"
    [] tok = "Measure" -> "measure"
    [] tok = "LineQubit" -> "linequbit"
    [] tok = "Circuit" -> "circuit"
    [] tok = "OPENQASM" -> "openqasm"
    [] OTHER -> tok

Upper(tok) ==
  CASE tok = "h" -> "H"
    [] tok = "x" -> "X"
    [] tok = "cx" -> "CX"
    [] tok = "cnot" -> "CNOT"
    [] tok = "cz" -> "CZ"
    [] tok = "swap" -> "SWAP"
    [] tok = "toffoli" -> "TOFFOLI"
    [] tok = "measure" -> "MEASURE"
    [] tok = "Measure" -> "MEASURE"
    [] tok = "LineQubit" -> "LINEQUBIT"
    [] tok = "Circuit" -> "CIRCUIT"
    [] tok = "range" -> "RANGE"
    [] OTHER -> tok

\* the characters of tok.lower() for the tokens whose letters a substring,
\* prefix or suffix test can tell apart; every other token of the catalogue
\* holds none of the searched keywords and stands for itself
Spelling(tok) ==
  CASE tok = "search" -> <<"s", "e", "a", "r", "c", "h">>
    [] tok = "grover" -> <<"g", "r", "o", "v", "e", "r">>
    [] tok = "oracle" -> <<"o", "r", "a", "c", "l", "e">>
    [] tok = "vqe" -> <<"v", "q", "e">>
    [] tok = "factor" -> <<"f", "a", "c", "t", "o", "r">>
    [] tok = "factorial" -> <<"f", "a", "c", "t", "o", "r", "i", "a", "l">>
    [] tok = "machine" -> <<"m", "a", "c", "h", "i", "n", "e">>
    [] tok = "qft" -> <<"q", "f", "t">>
    [] tok = "sorted" -> <<"s", "o", "r", "t", "e", "d">>
    [] tok = "log" -> <<"l", "o", "g">>
    [] tok = "for" -> <<"f", "o", "r">>
    [] tok = "format" -> <<"f", "o", "r", "m", "a", "t">>
    [] tok = "iffy" -> <<"i", "f", "f", "y">>
    [] tok = "def" -> <<"d", "e", "f">>
    [] tok = "if" -> <<"i", "f">>
    [] tok = NL -> <<"\n">>
    [] OTHER -> <<Lower(tok)>>

\* the characters of the lowercased tokens toks
RECURSIVE Chars(_)
Chars(toks) ==
  IF toks = <<>> THEN <<>> ELSE Spelling(toks[1]) \o Chars(Tail(toks))

\* s starts with the characters kw
StartsWith(s, kw) ==
  Len(s) >= Len(kw) /\ SubSeq(s, 1, Len(kw)) = kw

\* kw in s
Contains(s, kw) ==
  \E i \in 1..(Len(s) - Len(kw) + 1) : SubSeq(s, i, i + Len(kw) - 1) = kw

(***************************************************************************)
(* Regular expressions over tokens.  A pattern is a sequence of elements:  *)
(* "<s+>" is \s+, "<s*>" is \s*, "<w+>" is \w+, "<d+>" is \d+, "<q>" is   *)
(* the quote class ['"], any other element is a literal.  Whitespace       *)
(* repetition is greedy; since the element after it never matches          *)
(* whitespace, greedy matching decides.                                    *)
(***************************************************************************)
RECURSIVE SkipWs(_, _)
SkipWs(toks, i) ==
  IF i <= Len(toks) /\ IsWs(toks[i]) THEN SkipWs(toks, i + 1) ELSE i

ElemMatches(e, tok) ==
  CASE e = "<w+>" -> IsWord(tok)
    [] e = "<d+>" -> IsDigits(tok)
    [] e = "<q>" -> tok \in {"'", "\""}
    [] OTHER -> tok = e

\* Bind(pat, k, toks, i, acc): match elements k.. of pat at position i.
\* Result: <<>> when there is no match; otherwise acc extended with the
\* position of the token each element matched, and at the end the position
\* after the match.
RECURSIVE Bind(_, _, _, _, _)
Bind(pat, k, toks, i, acc) ==
  IF k > Len(pat) THEN Append(acc, i)
  ELSE LET e == pat[k] IN
    IF e \in {"<s*>", "<s+>"}
    THEN LET j == SkipWs(toks, i) IN
         IF e = "<s+>" /\ j = i THEN <<>>
         ELSE Bind(pat, k + 1, toks, j, Append(acc, i))
    ELSE IF i <= Len(toks) /\ ElemMatches(e, toks[i])
         THEN Bind(pat, k + 1, toks, i + 1, Append(acc, i))
         ELSE <<>>

MatchAt(pat, toks, i) == Bind(pat, 1, toks, i, <<>>)

\* re.search(pat, toks) from position from: the leftmost match, or <<>>
RECURSIVE SearchFrom(_, _, _)
SearchFrom(pat, toks, from) ==
  IF from > Len(toks) THEN <<>>
  ELSE LET m == MatchAt(pat, toks, from) IN
       IF m # <<>> THEN m ELSE SearchFrom(pat, toks, from + 1)

Search(pat, toks) == SearchFrom(pat, toks, 1)

\* the first element of pat can match at position i
CanStartAt(pat, toks, i) ==
  pat[1] \in {"<s*>", "<s+>"} \/ ElemMatches(pat[1], toks[i])

\* bool(re.search(pat, toks)): there is a match at some position
Found(pat, toks) ==
  \E i \in 1..Len(toks) :
     CanStartAt(pat, toks, i) /\ MatchAt(pat, toks, i) # <<>>

\* re.search with a leading ^ under re.MULTILINE: the match starts at the
\* start of the text or right after a newline
FoundAtLineStart(pat, toks) ==
  \E i \in 1..Len(toks) :
     /\ (i = 1 \/ toks[i - 1] = NL)
     /\ CanStartAt(pat, toks, i)
     /\ MatchAt(pat, toks, i) # <<>>

\* regex with one optional trailing group (?:...)? : at each start position
\* the longer alternative is tried first
RECURSIVE SearchOptFrom(_, _, _, _)
SearchOptFrom(long, short, toks, from) ==
  IF from > Len(toks) THEN [pat |-> "none", m |-> <<>>]
  ELSE LET ml == MatchAt(long, toks, from)
           ms == MatchAt(short, toks, from)
       IN IF ml # <<>> THEN [pat |-> "long", m |-> ml]
          ELSE IF ms # <<>> THEN [pat |-> "short", m |-> ms]
          ELSE SearchOptFrom(long, short, toks, from + 1)

(***************************************************************************)
(* Texts.                                                                  *)
(***************************************************************************)
\* the text as one token stream: lines joined by the newline token
RECURSIVE Flat(_)
Flat(text) ==
  IF Len(text) = 1 THEN text[1]
  ELSE text[1] \o <<NL>> \o Flat(Tail(text))

\* str.strip() of a token sequence
RECURSIVE StripRight(_)
StripRight(toks) ==
  IF toks # <<>> /\ IsWs(toks[Len(toks)])
  THEN StripRight(SubSeq(toks, 1, Len(toks) - 1)) ELSE toks

Strip(toks) ==
  LET j == SkipWs(toks, 1) IN StripRight(SubSeq(toks, j, Len(toks)))

(***************************************************************************)
(* LanguageDetector (modules/language_detector.py).                        *)
(***************************************************************************)
\* the quantum notations in the insertion order of self.signatures
QuantumLangs == <<"qiskit", "cirq", "qsharp", "openqasm">>
Langs == {"python", "qiskit", "qsharp", "cirq", "openqasm"}

\* self.signatures: per notation the ordered list of signature patterns;
\* anchored marks the one pattern that starts with ^
Signatures(lang) ==
  CASE lang = "qiskit" ->
         << <<"from", "<s+>", "qiskit", "<s+>", "import">>,
            <<"import", "<s+>", "qiskit">>,
            <<"QuantumCircuit">>,
            <<"QuantumRegister">>,
            <<"ClassicalRegister">> >>
    [] lang = "cirq" ->
         << <<"import", "<s+>", "cirq">>,
            <<"from", "<s+>", "cirq", "<s+>", "import">>,
            <<"cirq", ".", "Circuit">>,
            <<"cirq", ".", "LineQubit">> >>
    [] lang = "qsharp" ->
         << <<"namespace", "<s+>", "<w+>", "<s*>", "{">>,
            <<"operation", "<s+>", "<w+>", "<s*>", "(">>,
            <<"using", "<s*>", "(">>,
            <<"body", "<s*>", "(", "...", ")">>,
            <<"Microsoft", ".", "Quantum">> >>
    [] lang = "openqasm" ->
         << <<"OPENQASM", "<s+>", "<d+>", ".", "<d+>">>,
            <<"include", "<s+>", "\"", "qelib1", ".", "inc", "\"">>,
            <<"qreg", "<s+>", "<w+>", "[", "<d+>", "]">>,
            <<"creg", "<s+>", "<w+>", "[", "<d+>", "]">>,
            <<"gate", "<s+>", "<w+>">> >>

SignatureAnchored(lang, k) == lang = "openqasm" /\ k = 5

\* re.search(pattern, code, re.MULTILINE) for signature k of lang
SignatureMatches(lang, k, toks) ==
  IF SignatureAnchored(lang, k)
  THEN FoundAtLineStart(Signatures(lang)[k], toks)
  ELSE Found(Signatures(lang)[k], toks)

\* matched_patterns of one notation: the matched signatures, in list order;
\* each signature contributes once, however often it occurs in the text
RECURSIVE MatchedFrom(_, _, _)
MatchedFrom(lang, k, toks) ==
  IF k > Len(Signatures(lang)) THEN <<>>
  ELSE (IF SignatureMatches(lang, k, toks) THEN <<k>> ELSE <<>>)
       \o MatchedFrom(lang, k + 1, toks)

MatchedPatterns(lang, toks) == MatchedFrom(lang, 1, toks)
Score(lang, toks) == Len(MatchedPatterns(lang, toks))

\* faulty variant: the last notation, in insertion order, whose score is the
\* highest
RECURSIVE BestFromLastMaximum(_, _, _, _)
BestFromLastMaximum(k, toks, best, bestScore) ==
  IF k > Len(QuantumLangs) THEN best
  ELSE LET s == Score(QuantumLangs[k], toks) IN
       IF s > 0 /\ s >= bestScore
       THEN BestFromLastMaximum(k + 1, toks, QuantumLangs[k], s)
       ELSE BestFromLastMaximum(k + 1, toks, best, bestScore)

\* max(scores.items(), key=score): the first notation, in insertion order,
\* whose score is the highest; "none" when scores is empty
RECURSIVE BestFrom(_, _, _, _)
BestFrom(k, toks, best, bestScore) ==
  IF k > Len(QuantumLangs) THEN best
  ELSE LET s == Score(QuantumLangs[k], toks) IN
       IF s > bestScore THEN BestFrom(k + 1, toks, QuantumLangs[k], s)
       ELSE BestFrom(k + 1, toks, best, bestScore)

BestLang(toks) == BestFrom(1, toks, "none", 0)

\* python_indicators of _is_python
PythonIndicators ==
  << <<"def", "<s+>", "<w+>", "<s*>", "(">>,
     <<"class", "<s+>", "<w+>">>,
     <<"import", "<s+>", "<w+>">>,
     <<"from", "<s+>", "<w+>", "<s+>", "import">>,
     <<"if", "<s+>", "__name__", "<s*>", "==", "<s*>", "<q>", "__main__",
       "<q>">> >>

PythonMatches(toks) ==
  Cardinality({k \in 1..Len(PythonIndicators) : Found(PythonIndicators[k], toks)})

IsPython(toks) == PythonMatches(toks) >= 2

\* faulty variant: tests "not code" only
IsEmpty(text) == Flat(text) = <<>>

\* not code or not code.strip()
IsBlank(text) == Strip(Flat(text)) = <<>>

\* first three elements of a list: lst[:3]
FirstThree(lst) == SubSeq(lst, 1, IF Len(lst) < 3 THEN Len(lst) ELSE 3)

Min(a, b) == IF a <= b THEN a ELSE b
Max(a, b) == IF a >= b THEN a ELSE b

\* faulty variant: divides by five whatever the notation
ConfidenceOfFive(score, maxPossible) == Min((score * 1000) \div 5, 1000)

\* min(score / max_possible, 1.0), in thousandths (exact: every signature
\* list has 4 or 5 patterns)
Confidence(score, maxPossible) == Min((score * 1000) \div maxPossible, 1000)

\* LanguageDetector.detect; confidence in thousandths
Detect(text) ==
  IF IsBlank(text)
  THEN [language |-> "unknown", confidence |-> 0, is_supported |-> FALSE,
        details |-> [msg |-> "Empty code provided", score |-> 0,
                     matched |-> <<>>]]
  ELSE LET toks == Flat(text)
           best == BestLang(toks)
       IN IF best = "none"
          THEN IF IsPython(toks)
               THEN [language |-> "python", confidence |-> 700,
                     is_supported |-> TRUE,
                     details |-> [msg |-> "Detected as Python",
                                  score |-> 0, matched |-> <<>>]]
               ELSE [language |-> "unknown", confidence |-> 0,
                     is_supported |-> FALSE,
                     details |-> [msg |-> "Could not identify language",
                                  score |-> 0, matched |-> <<>>]]
          ELSE LET matched == MatchedPatterns(best, toks) IN
               [language |-> best,
                confidence |-> Confidence(Len(matched),
                                          Len(Signatures(best))),
                is_supported |-> TRUE,
                details |-> [msg |-> "Matched patterns",
                             score |-> Len(matched),
                             matched |-> FirstThree(matched)]]

(***************************************************************************)
(* Unified model (models/unified_ast.py).                                  *)
(***************************************************************************)
SingleQubitKinds == {"H", "X", "Y", "Z", "S", "T", "RX", "RY", "RZ"}
EntanglingKinds == {"CNOT", "CX", "CZ", "SWAP", "TOFFOLI", "FREDKIN"}
OtherKinds == {"MEASURE", "BARRIER", "RESET", "CUSTOM"}
GateType == SingleQubitKinds \cup EntanglingKinds \cup OtherKinds
SuperpositionKinds == {"H", "RX", "RY"}

\* QuantumGateNode(gate_type, qubits, control_qubits, is_controlled, line)
QuantumGateNode(kind, qubits, controls, isControlled, line) ==
  [gate_type |-> kind, qubits |-> qubits, control_qubits |-> controls,
   is_controlled |-> isControlled, line_number |-> line]

\* QuantumRegisterNode / ClassicalRegisterNode(name, size, line_number)
RegisterNode(name, size, line) ==
  [name |-> name, size |-> size, line_number |-> line]

\* MeasurementNode
MeasurementNode(qreg, creg, qidx, cidx, line) ==
  [quantum_register |-> qreg, classical_register |-> creg,
   qubit_indices |-> qidx, classical_indices |-> cidx, line_number |-> line]

RECURSIVE SumSizes(_)
SumSizes(regs) ==
  IF regs = <<>> THEN 0 ELSE regs[1].size + SumSizes(Tail(regs))

\* number of elements of a sequence that satisfy a kind set
RECURSIVE CountKinds(_, _)
CountKinds(gates, kinds) ==
  IF gates = <<>> THEN 0
  ELSE (IF gates[1].gate_type \in kinds THEN 1 ELSE 0)
       + CountKinds(Tail(gates), kinds)

(***************************************************************************)
(* Helpers shared by the parsers.                                          *)
(***************************************************************************)
\* str.split(',') of a token sequence: the items between the commas
RECURSIVE SplitComma(_, _)
SplitComma(toks, cur) ==
  IF toks = <<>> THEN <<cur>>
  ELSE IF toks[1] = "," THEN <<cur>> \o SplitComma(Tail(toks), <<>>)
  ELSE SplitComma(Tail(toks), Append(cur, toks[1]))

\* int(item.strip()): the integer, or -1 when int() raises ValueError
IntOfItem(item) ==
  LET s == Strip(item) IN
  IF Len(s) = 1 /\ IsDigits(s[1]) THEN IntOf(s[1]) ELSE -1

\* [int(x.strip()) for x in items]
RECURSIVE IntsOf(_)
IntsOf(items) ==
  IF items = <<>> THEN <<>> ELSE <<IntOfItem(items[1])>> \o IntsOf(Tail(items))

AllValid(ints) == \A k \in 1..Len(ints) : ints[k] >= 0

\* qubits[:-1] and qubits[-1]
ButLast(seq) == SubSeq(seq, 1, Len(seq) - 1)
Last(seq) == seq[Len(seq)]

\* line.strip().startswith(...) on the first lexeme of the stripped line
FirstTok(line) == LET s == Strip(line) IN IF s = <<>> THEN "" ELSE s[1]

\* the result of an extraction step that may raise
Ok(v) == [raised |-> FALSE, value |-> v]
Raised == [raised |-> TRUE, value |-> <<>>]

(***************************************************************************)
(* QiskitParser (modules/parsers/qiskit_parser.py).                        *)
(***************************************************************************)
QiskitGateMapping(name) ==
  CASE name = "h" -> "H"
    [] name = "x" -> "X"
    [] name = "y" -> "Y"
    [] name = "z" -> "Z"
    [] name = "s" -> "S"
    [] name = "t" -> "T"
    [] name = "rx" -> "RX"
    [] name = "ry" -> "RY"
    [] name = "rz" -> "RZ"
    [] name = "cx" -> "CX"
    [] name = "cnot" -> "CNOT"
    [] name = "cz" -> "CZ"
    [] name = "swap" -> "SWAP"
    [] name = "ccx" -> "TOFFOLI"
    [] name = "toffoli" -> "TOFFOLI"
    [] name = "measure" -> "MEASURE"
    [] name = "barrier" -> "BARRIER"
    [] name = "reset" -> "RESET"
    [] OTHER -> "none"

\* the kinds QiskitParser marks as controlled
QiskitControlled == {"CX", "CNOT", "CZ", "TOFFOLI"}

\* the character class [\d,\s]
InArgClass(tok) == IsDigits(tok) \/ tok = "," \/ IsWs(tok)

RECURSIVE ArgRunEnd(_, _)
ArgRunEnd(toks, i) ==
  IF i <= Len(toks) /\ InArgClass(toks[i]) THEN ArgRunEnd(toks, i + 1) ELSE i

\* gate_pattern \.(\w+)\s*\(\s*([\d,\s]+)\s*\) matched at position i:
\* [ok, name, args, end]; args is group 2
QiskitGateMatchAt(toks, i) ==
  LET no == [ok |-> FALSE, name |-> "", args |-> <<>>, end |-> i] IN
  IF ~(i + 1 <= Len(toks) /\ toks[i] = "." /\ IsWord(toks[i + 1])) THEN no
  ELSE LET j == SkipWs(toks, i + 2) IN
    IF ~(j <= Len(toks) /\ toks[j] = "(") THEN no
    ELSE LET e == ArgRunEnd(toks, j + 1)
             a == SkipWs(toks, j + 1)
         IN IF ~(e > j + 1 /\ e <= Len(toks) /\ toks[e] = ")") THEN no
            ELSE [ok |-> TRUE, name |-> toks[i + 1],
                  \* an all-whitespace run: \s* gives its last character
                  \* back to the group
                  args |-> IF a >= e THEN SubSeq(toks, e - 1, e - 1)
                           ELSE SubSeq(toks, a, e - 1),
                  end |-> e + 1]

\* the gate built from one match of a mapped gate name (lines 143-163)
QiskitGateOf(kind, qubits, line) ==
  LET isControlled == kind \in QiskitControlled IN
  IF isControlled /\ Len(qubits) > 1
  THEN QuantumGateNode(kind, <<Last(qubits)>>, ButLast(qubits),
                       isControlled, line)
  ELSE QuantumGateNode(kind, qubits, <<>>, isControlled, line)

\* re.finditer over one line, from position from
RECURSIVE QiskitLineGates(_, _, _)
QiskitLineGates(toks, from, line) ==
  IF from > Len(toks) THEN Ok(<<>>)
  ELSE LET m == QiskitGateMatchAt(toks, from) IN
    IF ~m.ok THEN QiskitLineGates(toks, from + 1, line)
    ELSE LET kind == QiskitGateMapping(Lower(m.name))
             rest == QiskitLineGates(toks, m.end, line)
         IN IF kind = "none" THEN rest
            ELSE LET qubits == IntsOf(SplitComma(m.args, <<>>)) IN
                 IF ~AllValid(qubits) THEN Raised
                 ELSE IF rest.raised THEN Raised
                 ELSE Ok(<<QiskitGateOf(kind, qubits, line)>> \o rest.value)

\* QiskitParser.extract_quantum_operations over self.lines
RECURSIVE QiskitGatesFrom(_, _)
QiskitGatesFrom(lines, i) ==
  IF i > Len(lines) THEN Ok(<<>>)
  ELSE LET here == QiskitLineGates(lines[i], 1, i) IN
       IF here.raised THEN Raised
       ELSE LET rest == QiskitGatesFrom(lines, i + 1) IN
            IF rest.raised THEN Raised ELSE Ok(here.value \o rest.value)

QiskitExtractGates(lines) == QiskitGatesFrom(lines, 1)

\* QiskitParser.extract_imports: the stripped lines matching an import
\* pattern ((.+) needs one more token after the pattern's fixed part)
QiskitIsImport(toks) ==
  \/ \E i \in 1..Len(toks) :
       LET m == MatchAt(<<"from", "<s+>", "qiskit", "<s+>", "import", "<s+>">>,
                        toks, i)
       IN m # <<>> /\ m[Len(m)] <= Len(toks)
  \/ Found(<<"import", "<s+>", "qiskit">>, toks)
  \/ \E i \in 1..Len(toks) :
       LET m == MatchAt(<<"from", "<s+>", "qiskit", ".", "<w+>", "<s+>",
                          "import", "<s+>">>, toks, i)
       IN m # <<>> /\ m[Len(m)] <= Len(toks)

RECURSIVE SelectLines(_, _, _)
\* [line.strip() for line in lines if Pred(line)] for the import predicates
SelectLines(lines, i, isImport) ==
  IF i > Len(lines) THEN <<>>
  ELSE (IF isImport[i] THEN <<Strip(lines[i])>> ELSE <<>>)
       \o SelectLines(lines, i + 1, isImport)

QiskitExtractImports(lines) ==
  SelectLines(lines, 1, [i \in 1..Len(lines) |-> QiskitIsImport(lines[i])])

\* register constructor patterns of QiskitParser.extract_registers
QRegLong ==
  <<"QuantumRegister", "<s*>", "(", "<s*>", "<d+>", "<s*>", ",", "<s*>",
    "<q>", "<w+>", "<q>", "<s*>", ")">>
QRegShort == <<"QuantumRegister", "<s*>", "(", "<s*>", "<d+>", "<s*>", ")">>
CRegLong ==
  <<"ClassicalRegister", "<s*>", "(", "<s*>", "<d+>", "<s*>", ",", "<s*>",
    "<q>", "<w+>", "<q>", "<s*>", ")">>
CRegShort ==
  <<"ClassicalRegister", "<s*>", "(", "<s*>", "<d+>", "<s*>", ")">>
CircuitLong ==
  <<"QuantumCircuit", "<s*>", "(", "<s*>", "<d+>", "<s*>", ",", "<s*>",
    "<d+>", "<s*>", ")">>
CircuitShort ==
  <<"QuantumCircuit", "<s*>", "(", "<s*>", "<d+>", "<s*>", ")">>

\* a register name: an explicit name literal, or a prefix and a counter
\* (f'q{len(quantum_regs)}')
RegName(base, idx) == [base |-> base, idx |-> idx]

\* one iteration of the loop of extract_registers: the registers of line i
\* appended to acc = [quantum, classical]
QiskitLineRegisters(toks, i, acc) ==
  LET q == SearchOptFrom(QRegLong, QRegShort, toks, 1)
      acc1 == IF q.pat = "none" THEN acc
              ELSE [acc EXCEPT !.quantum = Append(@,
                      RegisterNode(
                        IF q.pat = "long" THEN RegName(toks[q.m[10]], -1)
                        ELSE RegName("q", Len(acc.quantum)),
                        IntOf(toks[q.m[5]]), i))]
      c == SearchOptFrom(CRegLong, CRegShort, toks, 1)
      acc2 == IF c.pat = "none" THEN acc1
              ELSE [acc1 EXCEPT !.classical = Append(@,
                      RegisterNode(
                        IF c.pat = "long" THEN RegName(toks[c.m[10]], -1)
                        ELSE RegName("c", Len(acc1.classical)),
                        IntOf(toks[c.m[5]]), i))]
      qc == SearchOptFrom(CircuitLong, CircuitShort, toks, 1)
      nQubits == IF qc.pat = "none" THEN 0 ELSE IntOf(toks[qc.m[5]])
      nBits == IF qc.pat = "long" THEN IntOf(toks[qc.m[9]]) ELSE 0
      acc3 == IF nQubits > 0
              THEN [acc2 EXCEPT !.quantum = Append(@,
                      RegisterNode(RegName("q", -1), nQubits, i))]
              ELSE acc2
  IN IF nBits > 0
     THEN [acc3 EXCEPT !.classical = Append(@,
             RegisterNode(RegName("c", -1), nBits, i))]
     ELSE acc3

RECURSIVE QiskitRegistersFrom(_, _, _)
QiskitRegistersFrom(lines, i, acc) ==
  IF i > Len(lines) THEN acc
  ELSE QiskitRegistersFrom(lines, i + 1, QiskitLineRegisters(lines[i], i, acc))

QiskitExtractRegisters(lines) ==
  QiskitRegistersFrom(lines, 1, [quantum |-> <<>>, classical |-> <<>>])

\* arg.strip('[]')
RECURSIVE StripBracketsRight(_)
StripBracketsRight(toks) ==
  IF toks # <<>> /\ toks[Len(toks)] \in {"[", "]"}
  THEN StripBracketsRight(ButLast(toks)) ELSE toks

RECURSIVE StripBracketsLeft(_)
StripBracketsLeft(toks) ==
  IF toks # <<>> /\ toks[1] \in {"[", "]"}
  THEN StripBracketsLeft(Tail(toks)) ELSE toks

StripBrackets(toks) == StripBracketsRight(StripBracketsLeft(toks))

\* QiskitParser._parse_indices: Ok(list) or Raised (ValueError); int()
\* itself ignores whitespace around the digits
ParseIndices(arg) ==
  LET a == StripBrackets(arg)
      ints == IF \E k \in 1..Len(a) : a[k] = ","
              THEN IntsOf(SplitComma(a, <<>>))
              ELSE <<IntOfItem(a)>>
  IN IF AllValid(ints) THEN Ok(ints) ELSE Raised

\* measure_pattern \.measure\s*\(\s*(.+?)\s*,\s*(.+?)\s*\) .  The regex
\* engine prefers the longest leading \s*, then the shortest group 1, then
\* the longest \s* after the comma, then the shortest group 2.

\* the shortest group starting at b that is followed by \s* and stop:
\* its last position, or 0
RECURSIVE LazyEnd(_, _, _)
LazyEnd(toks, g, stop) ==
  IF g > Len(toks) THEN 0
  ELSE LET d == SkipWs(toks, g + 1) IN
       IF d <= Len(toks) /\ toks[d] = stop THEN g
       ELSE LazyEnd(toks, g + 1, stop)

\* group 2 after the comma at k: <<b, g2>> or <<>>; b runs down from the
\* end of the whitespace after the comma
RECURSIVE MeasureGroup2(_, _, _)
MeasureGroup2(toks, k, b) ==
  IF b <= k THEN <<>>
  ELSE LET g2 == IF b <= Len(toks) THEN LazyEnd(toks, b, ")") ELSE 0 IN
       IF g2 # 0 THEN <<b, g2>> ELSE MeasureGroup2(toks, k, b - 1)

\* group 1 from a, its end g1 running up: <<a, g1, b, g2>> or <<>>
RECURSIVE MeasureGroup1(_, _, _)
MeasureGroup1(toks, a, g1) ==
  IF g1 > Len(toks) THEN <<>>
  ELSE LET k == SkipWs(toks, g1 + 1)
           rest == IF k <= Len(toks) /\ toks[k] = ","
                   THEN MeasureGroup2(toks, k, SkipWs(toks, k + 1))
                   ELSE <<>>
       IN IF rest # <<>> THEN <<a, g1>> \o rest
          ELSE MeasureGroup1(toks, a, g1 + 1)

\* the start a of group 1 runs down from the end of the whitespace after
\* the parenthesis at j
RECURSIVE MeasureFromParen(_, _, _)
MeasureFromParen(toks, j, a) ==
  IF a <= j THEN <<>>
  ELSE LET m == IF a <= Len(toks) THEN MeasureGroup1(toks, a, a) ELSE <<>> IN
       IF m # <<>> THEN m ELSE MeasureFromParen(toks, j, a - 1)

MeasureMatchAt(toks, i) ==
  IF ~(i + 1 <= Len(toks) /\ toks[i] = "." /\ toks[i + 1] = "measure")
  THEN <<>>
  ELSE LET j == SkipWs(toks, i + 2) IN
       IF ~(j <= Len(toks) /\ toks[j] = "(") THEN <<>>
       ELSE MeasureFromParen(toks, j, SkipWs(toks, j + 1))

\* re.search(measure_pattern, line): <<>> or the bounds <<a, g1, b, g2>> of
\* group 1 and group 2
RECURSIVE MeasureSearch(_, _)
MeasureSearch(toks, i) ==
  IF i > Len(toks) THEN <<>>
  ELSE LET m == MeasureMatchAt(toks, i) IN
       IF m # <<>> THEN m ELSE MeasureSearch(toks, i + 1)

\* the measurement of one line (lines 177-201), <<>> when there is none
QiskitLineMeasurement(toks, line) ==
  LET c == MeasureSearch(toks, 1) IN
  IF c = <<>> THEN <<>>
  ELSE LET quantumArg == SubSeq(toks, c[1], c[2])
           classicalArg == SubSeq(toks, c[3], c[4])
           q == ParseIndices(quantumArg)
           cl == ParseIndices(classicalArg)
       IN IF ~q.raised /\ ~cl.raised
          THEN <<MeasurementNode(<<"q">>, <<"c">>, q.value, cl.value, line)>>
          ELSE <<MeasurementNode(quantumArg, classicalArg, <<>>, <<>>, line)>>

RECURSIVE QiskitMeasurementsFrom(_, _)
QiskitMeasurementsFrom(lines, i) ==
  IF i > Len(lines) THEN <<>>
  ELSE QiskitLineMeasurement(lines[i], i) \o QiskitMeasurementsFrom(lines, i + 1)

QiskitExtractMeasurements(lines) == QiskitMeasurementsFrom(lines, 1)

(***************************************************************************)
(* CirqParser (modules/parsers/cirq_parser.py).                            *)
(***************************************************************************)
\* gate_mapping is looked up with match.group(1).upper()
CirqGateMapping(name) ==
  CASE name = "H" -> "H"
    [] name = "X" -> "X"
    [] name = "Y" -> "Y"
    [] name = "Z" -> "Z"
    [] name = "S" -> "S"
    [] name = "T" -> "T"
    [] name = "CNOT" -> "CNOT"
    [] name = "CX" -> "CX"
    [] name = "CZ" -> "CZ"
    [] name = "SWAP" -> "SWAP"
    [] name = "TOFFOLI" -> "TOFFOLI"
    [] name = "measure" -> "MEASURE"
    [] OTHER -> "none"

\* the kinds CirqParser marks as controlled
CirqControlled == {"CNOT", "CX", "CZ"}

CirqIsImport(toks) ==
  Found(<<"import", " ", "cirq">>, toks) \/ Found(<<"from", " ", "cirq">>, toks)

CirqExtractImports(lines) ==
  SelectLines(lines, 1, [i \in 1..Len(lines) |-> CirqIsImport(lines[i])])

LineQubitPattern ==
  <<"cirq", ".", "LineQubit", ".", "range", "<s*>", "(", "<s*>", "<d+>",
    "<s*>", ")">>
GridQubitFindPattern ==
  <<"GridQubit", "<s*>", "(", "<s*>", "<d+>", "<s*>", ",", "<s*>", "<d+>",
    "<s*>", ")">>

\* len(re.findall(pat, toks)): the non-overlapping matches, left to right
RECURSIVE CountMatches(_, _, _)
CountMatches(pat, toks, from) ==
  LET m == SearchFrom(pat, toks, from) IN
  IF m = <<>> THEN 0 ELSE 1 + CountMatches(pat, toks, m[Len(m)])

\* the loop of CirqParser.extract_registers: acc = [regs, total]
RECURSIVE CirqRegistersFrom(_, _, _)
CirqRegistersFrom(lines, i, acc) ==
  IF i > Len(lines) THEN acc
  ELSE LET toks == lines[i]
           lm == Search(LineQubitPattern, toks)
           acc1 == IF lm = <<>> THEN acc
                   ELSE [regs |-> Append(acc.regs,
                           RegisterNode(RegName("qubits", -1),
                                        IntOf(toks[lm[9]]), i)),
                         total |-> acc.total + IntOf(toks[lm[9]])]
           acc2 == IF Found(<<"cirq", ".", "GridQubit">>, toks)
                   THEN [acc1 EXCEPT !.total =
                           @ + CountMatches(GridQubitFindPattern, toks, 1)]
                   ELSE acc1
       IN CirqRegistersFrom(lines, i + 1, acc2)

CirqExtractRegisters(lines) ==
  LET r == CirqRegistersFrom(lines, 1, [regs |-> <<>>, total |-> 0]) IN
  [quantum |-> IF r.total > 0 /\ r.regs = <<>>
               THEN <<RegisterNode(RegName("qubits", -1), r.total, 0)>>
               ELSE r.regs,
   classical |-> <<>>]

\* first position >= i holding tok, or Len(toks) + 1
RECURSIVE IndexOf(_, _, _)
IndexOf(toks, tok, i) ==
  IF i > Len(toks) \/ toks[i] = tok THEN i ELSE IndexOf(toks, tok, i + 1)

\* gate_pattern cirq\.(\w+)(?:\.on)?\s*\(\s*([^)]+)\s*\) at position i:
\* [ok, name, args, end]
CirqGateMatchAt(toks, i) ==
  LET no == [ok |-> FALSE, name |-> "", args |-> <<>>, end |-> i] IN
  IF ~(i + 2 <= Len(toks) /\ toks[i] = "cirq" /\ toks[i + 1] = "."
       /\ IsWord(toks[i + 2])) THEN no
  ELSE LET afterOn == IF i + 4 <= Len(toks) /\ toks[i + 3] = "."
                         /\ toks[i + 4] = "on"
                      THEN i + 5 ELSE i + 3
           j == SkipWs(toks, afterOn)
       IN IF ~(j <= Len(toks) /\ toks[j] = "(") THEN no
          ELSE LET e == IndexOf(toks, ")", j + 1) IN
               \* [^)]+ needs at least one character before the parenthesis
               IF ~(e <= Len(toks) /\ e > j + 1) THEN no
               ELSE [ok |-> TRUE, name |-> toks[i + 2],
                     args |-> SubSeq(toks, j + 1, e - 1), end |-> e + 1]

\* str.count('qubit') of one lexeme
CountQubitIn(tok) == IF tok \in {"qubit", "qubits"} THEN 1 ELSE 0

RECURSIVE CountQubit(_)
\* qubits_arg.count('qubit')
CountQubit(toks) ==
  IF toks = <<>> THEN 0 ELSE CountQubitIn(toks[1]) + CountQubit(Tail(toks))

\* list(range(n))
RangeList(n) == [k \in 1..n |-> k - 1]

\* the gate built from one match of a mapped gate name (lines 98-114)
CirqGateOf(kind, args, line) ==
  LET c == CountQubit(args)
      qubitCount == IF c = 0 THEN 1 ELSE c
  IN QuantumGateNode(kind, RangeList(qubitCount), <<>>,
                     kind \in CirqControlled, line)

RECURSIVE CirqLineGates(_, _, _)
CirqLineGates(toks, from, line) ==
  IF from > Len(toks) THEN <<>>
  ELSE LET m == CirqGateMatchAt(toks, from) IN
    IF ~m.ok THEN CirqLineGates(toks, from + 1, line)
    ELSE LET kind == CirqGateMapping(Upper(m.name))
             rest == CirqLineGates(toks, m.end, line)
         IN IF kind = "none" THEN rest
            ELSE <<CirqGateOf(kind, m.args, line)>> \o rest

RECURSIVE CirqGatesFrom(_, _)
CirqGatesFrom(lines, i) ==
  IF i > Len(lines) THEN <<>>
  ELSE CirqLineGates(lines[i], 1, i) \o CirqGatesFrom(lines, i + 1)

\* CirqParser.extract_quantum_operations over self.lines
CirqExtractGates(lines) == Ok(CirqGatesFrom(lines, 1))

RECURSIVE CirqMeasurementsFrom(_, _)
CirqMeasurementsFrom(lines, i) ==
  IF i > Len(lines) THEN <<>>
  ELSE (IF Found(<<"cirq", ".", "measure", "<s*>", "(">>, lines[i])
        THEN <<MeasurementNode(<<"qubits">>, <<"measurements">>, <<>>, <<>>,
                               i)>>
        ELSE <<>>) \o CirqMeasurementsFrom(lines, i + 1)

CirqExtractMeasurements(lines) == CirqMeasurementsFrom(lines, 1)

(***************************************************************************)
(* OpenQASMParser (modules/parsers/openqasm_parser.py).                    *)
(***************************************************************************)
OpenQASMGateMapping(name) ==
  CASE name = "h" -> "H"
    [] name = "x" -> "X"
    [] name = "y" -> "Y"
    [] name = "z" -> "Z"
    [] name = "s" -> "S"
    [] name = "t" -> "T"
    [] name = "rx" -> "RX"
    [] name = "ry" -> "RY"
    [] name = "rz" -> "RZ"
    [] name = "cx" -> "CX"
    [] name = "cz" -> "CZ"
    [] name = "swap" -> "SWAP"
    [] name = "ccx" -> "TOFFOLI"
    [] OTHER -> "none"

\* the kinds OpenQASMParser marks as controlled
OpenQASMControlled == {"CX", "CZ", "TOFFOLI"}

\* self.lines = [line.strip() for line in code.split('\n') if line.strip()]
RECURSIVE StrippedNonEmpty(_)
StrippedNonEmpty(text) ==
  IF text = <<>> THEN <<>>
  ELSE (IF Strip(text[1]) # <<>> THEN <<Strip(text[1])>> ELSE <<>>)
       \o StrippedNonEmpty(Tail(text))

OpenQASMExtractImports(lines) ==
  SelectLines(lines, 1, [i \in 1..Len(lines) |-> FirstTok(lines[i]) = "include"])

RECURSIVE OpenQASMRegistersFrom(_, _, _)
OpenQASMRegistersFrom(lines, i, acc) ==
  IF i > Len(lines) THEN acc
  ELSE LET toks == lines[i]
           q == Search(<<"qreg", "<s+>", "<w+>", "[", "<d+>", "]">>, toks)
           acc1 == IF q = <<>> THEN acc
                   ELSE [acc EXCEPT !.quantum = Append(@,
                           RegisterNode(RegName(toks[q[3]], -1),
                                        IntOf(toks[q[5]]), i))]
           c == Search(<<"creg", "<s+>", "<w+>", "[", "<d+>", "]">>, toks)
           acc2 == IF c = <<>> THEN acc1
                   ELSE [acc1 EXCEPT !.classical = Append(@,
                           RegisterNode(RegName(toks[c[3]], -1),
                                        IntOf(toks[c[5]]), i))]
       IN OpenQASMRegistersFrom(lines, i + 1, acc2)

OpenQASMExtractRegisters(lines) ==
  OpenQASMRegistersFrom(lines, 1, [quantum |-> <<>>, classical |-> <<>>])

\* the character class [\w\[\],\s]
InQasmClass(tok) == IsWord(tok) \/ tok \in {"[", "]", ","} \/ IsWs(tok)

RECURSIVE QasmRunEnd(_, _)
QasmRunEnd(toks, i) ==
  IF i <= Len(toks) /\ InQasmClass(toks[i]) THEN QasmRunEnd(toks, i + 1) ELSE i

\* gate_pattern (\w+)\s+([\w\[\],\s]+); at position i: [ok, name, args]
QasmGateMatchAt(toks, i) ==
  LET no == [ok |-> FALSE, name |-> "", args |-> <<>>] IN
  IF ~(i + 1 <= Len(toks) /\ IsWord(toks[i]) /\ IsWs(toks[i + 1])) THEN no
  ELSE LET j == SkipWs(toks, i + 1)
           e == QasmRunEnd(toks, j)
       IN IF ~(e <= Len(toks) /\ toks[e] = ";") THEN no
          ELSE IF e > j
               THEN [ok |-> TRUE, name |-> toks[i], args |-> SubSeq(toks, j, e - 1)]
               \* nothing but whitespace before the separator: \s+ gives
               \* its last character back to the group when it has two
               ELSE IF j - (i + 1) >= 2
                    THEN [ok |-> TRUE, name |-> toks[i],
                          args |-> SubSeq(toks, j - 1, j - 1)]
                    ELSE no

RECURSIVE QasmGateSearch(_, _)
\* re.search(gate_pattern, line): the leftmost match
QasmGateSearch(toks, i) ==
  IF i > Len(toks) THEN [ok |-> FALSE, name |-> "", args |-> <<>>]
  ELSE LET m == QasmGateMatchAt(toks, i) IN
       IF m.ok THEN m ELSE QasmGateSearch(toks, i + 1)

RECURSIVE ExtractQubitIndices(_, _)
\* _extract_qubit_indices: re.findall(r'\[(\d+)\]', qubits_str)
ExtractQubitIndices(toks, from) ==
  LET m == SearchFrom(<<"[", "<d+>", "]">>, toks, from) IN
  IF m = <<>> THEN <<>>
  ELSE <<IntOf(toks[m[2]])>> \o ExtractQubitIndices(toks, m[Len(m)])

QasmSkipped == {"OPENQASM", "include", "qreg", "creg", "measure", "barrier"}

\* the gate built from one match of a mapped gate name (lines 104-125)
QasmGateOf(kind, indices, line) ==
  LET isControlled == kind \in OpenQASMControlled IN
  IF isControlled /\ Len(indices) > 1
  THEN QuantumGateNode(kind, <<Last(indices)>>, ButLast(indices),
                       isControlled, line)
  ELSE QuantumGateNode(kind, indices, <<>>, isControlled, line)

\* the gates of one line (at most one: re.search)
QasmLineGates(toks, line) ==
  IF FirstTok(toks) \in QasmSkipped THEN <<>>
  ELSE LET m == QasmGateSearch(toks, 1)
           kind == IF m.ok THEN OpenQASMGateMapping(Lower(m.name)) ELSE "none"
       IN IF kind = "none" THEN <<>>
          ELSE <<QasmGateOf(kind, ExtractQubitIndices(m.args, 1), line)>>

RECURSIVE QasmGatesFrom(_, _)
QasmGatesFrom(lines, i) ==
  IF i > Len(lines) THEN <<>>
  ELSE QasmLineGates(lines[i], i) \o QasmGatesFrom(lines, i + 1)

\* OpenQASMParser.extract_quantum_operations over self.lines
OpenQASMExtractGates(lines) == Ok(QasmGatesFrom(lines, 1))

QasmMeasurePattern ==
  <<"measure", "<s+>", "<w+>", "[", "<d+>", "]", "<s*>", "->", "<s*>",
    "<w+>", "[", "<d+>", "]">>

RECURSIVE QasmMeasurementsFrom(_, _)
QasmMeasurementsFrom(lines, i) ==
  IF i > Len(lines) THEN <<>>
  ELSE LET toks == lines[i]
           m == Search(QasmMeasurePattern, toks)
       IN (IF m = <<>> THEN <<>>
           ELSE <<MeasurementNode(<<toks[m[3]]>>, <<toks[m[10]]>>,
                                  <<IntOf(toks[m[5]])>>,
                                  <<IntOf(toks[m[12]])>>, i)>>)
          \o QasmMeasurementsFrom(lines, i + 1)

OpenQASMExtractMeasurements(lines) == QasmMeasurementsFrom(lines, 1)

(***************************************************************************)
(* QSharpParser and PythonParser (modules/parsers/qsharp_parser.py).       *)
(***************************************************************************)
\* gate_mapping is looked up with match.group(1) as written
QSharpGateMapping(name) ==
  CASE name = "H" -> "H"
    [] name = "X" -> "X"
    [] name = "Y" -> "Y"
    [] name = "Z" -> "Z"
    [] name = "S" -> "S"
    [] name = "T" -> "T"
    [] name = "CNOT" -> "CNOT"
    [] name = "CX" -> "CX"
    [] name = "SWAP" -> "SWAP"
    [] name = "Measure" -> "MEASURE"
    [] OTHER -> "none"

\* the kinds QSharpParser marks as controlled
QSharpControlled == {"CNOT", "CX"}

\* 'using' in line or 'open' in line
QSharpIsImport(toks) == \E k \in 1..Len(toks) : toks[k] \in {"using", "open"}

QSharpExtractImports(lines) ==
  SelectLines(lines, 1, [i \in 1..Len(lines) |-> QSharpIsImport(lines[i])])

QubitPattern ==
  <<"using", "<s*>", "(", "<s*>", "<w+>", "<s*>", "=", "<s*>", "Qubit", "[",
    "<d+>", "]">>

RECURSIVE QSharpRegistersFrom(_, _)
QSharpRegistersFrom(lines, i) ==
  IF i > Len(lines) THEN <<>>
  ELSE LET toks == lines[i]
           m == Search(QubitPattern, toks)
       IN (IF m = <<>> THEN <<>>
           ELSE <<RegisterNode(RegName("qubits", -1), IntOf(toks[m[11]]), i)>>)
          \o QSharpRegistersFrom(lines, i + 1)

QSharpExtractRegisters(lines) ==
  [quantum |-> QSharpRegistersFrom(lines, 1), classical |-> <<>>]

\* gate_pattern (\w+)\s*\(\s*\w+(?:\[\d+\])?\s*\)
QSharpGateLong ==
  <<"<w+>", "<s*>", "(", "<s*>", "<w+>", "[", "<d+>", "]", "<s*>", ")">>
QSharpGateShort == <<"<w+>", "<s*>", "(", "<s*>", "<w+>", "<s*>", ")">>

RECURSIVE QSharpLineGates(_, _, _)
QSharpLineGates(toks, from, line) ==
  LET m == SearchOptFrom(QSharpGateLong, QSharpGateShort, toks, from) IN
  IF m.pat = "none" THEN <<>>
  ELSE LET kind == QSharpGateMapping(toks[m.m[1]])
           rest == QSharpLineGates(toks, m.m[Len(m.m)], line)
       IN IF kind = "none" THEN rest
          ELSE <<QuantumGateNode(kind, <<0>>, <<>>,
                                 kind \in QSharpControlled, line)>> \o rest

RECURSIVE QSharpGatesFrom(_, _)
QSharpGatesFrom(lines, i) ==
  IF i > Len(lines) THEN <<>>
  ELSE QSharpLineGates(lines[i], 1, i) \o QSharpGatesFrom(lines, i + 1)

\* QSharpParser.extract_quantum_operations over self.lines
QSharpExtractGates(lines) == Ok(QSharpGatesFrom(lines, 1))

RECURSIVE NamesFrom(_, _, _, _)
\* [m.group(1) for m in re.finditer(pat, toks)], group 1 at element g
NamesFrom(pat, g, toks, from) ==
  LET m == SearchFrom(pat, toks, from) IN
  IF m = <<>> THEN <<>>
  ELSE <<toks[m[g]]>> \o NamesFrom(pat, g, toks, m[Len(m)])

\* QSharpParser.extract_qsharp_operations over self.code
QSharpExtractOperations(code) ==
  NamesFrom(<<"operation", "<s+>", "<w+>", "<s*>", "(">>, 3, Flat(code), 1)

\* PythonParser.extract_imports: line.strip().startswith(('import ', 'from '))
PythonIsImport(toks) ==
  LET s == Strip(toks) IN
  Len(s) >= 2 /\ s[1] \in {"import", "from"} /\ s[2] = " "

PythonExtractImports(lines) ==
  SelectLines(lines, 1, [i \in 1..Len(lines) |-> PythonIsImport(lines[i])])

(***************************************************************************)
(* BaseParser (modules/parsers/base_parser.py).                            *)
(***************************************************************************)
\* count_lines: the lines that are neither blank nor start with '#'
RECURSIVE CountLines(_)
CountLines(text) ==
  IF text = <<>> THEN 0
  ELSE (IF FirstTok(text[1]) \notin {"", "#"} THEN 1 ELSE 0)
       + CountLines(Tail(text))

\* count_loops: the lines whose stripped, lowercased text starts with a loop
\* keyword
LoopKeywords ==
  {<<"f", "o", "r">>, <<"w", "h", "i", "l", "e">>,
   <<"r", "e", "p", "e", "a", "t">>, <<"l", "o", "o", "p">>}

RECURSIVE CountLoops(_)
CountLoops(text) ==
  IF text = <<>> THEN 0
  ELSE LET stripped == Chars(Strip(text[1])) IN
       (IF \E kw \in LoopKeywords : StartsWith(stripped, kw)
        THEN 1 ELSE 0)
       + CountLoops(Tail(text))

\* count_conditionals: the same test with the conditional keywords
ConditionalKeywords ==
  {<<"i", "f">>, <<"e", "l", "s", "e">>, <<"e", "l", "i", "f">>,
   <<"s", "w", "i", "t", "c", "h">>, <<"c", "a", "s", "e">>}

RECURSIVE CountConditionals(_)
CountConditionals(text) ==
  IF text = <<>> THEN 0
  ELSE LET stripped == Chars(Strip(text[1])) IN
       (IF \E kw \in ConditionalKeywords : StartsWith(stripped, kw)
        THEN 1 ELSE 0)
       + CountConditionals(Tail(text))

\* calculate_nesting_depth, first loop: the deepest bracket level, a closing
\* bracket never taking the level below 0
RECURSIVE BracketDepth(_, _, _, _)
BracketDepth(toks, i, cur, deepest) ==
  IF i > Len(toks) THEN deepest
  ELSE IF toks[i] \in {"{", "[", "("}
       THEN BracketDepth(toks, i + 1, cur + 1, Max(deepest, cur + 1))
  ELSE IF toks[i] \in {"}", "]", ")"}
       THEN BracketDepth(toks, i + 1, Max(0, cur - 1), deepest)
  ELSE BracketDepth(toks, i + 1, cur, deepest)

\* len(line) - len(line.lstrip())
RECURSIVE Indent(_)
Indent(toks) ==
  IF toks # <<>> /\ IsWs(toks[1]) THEN 1 + Indent(Tail(toks)) ELSE 0

\* calculate_nesting_depth, second loop: indent // 4 of every line
RECURSIVE IndentDepth(_, _)
IndentDepth(text, deepest) ==
  IF text = <<>> THEN deepest
  ELSE IndentDepth(Tail(text), Max(deepest, Indent(text[1]) \div 4))

CalculateNestingDepth(text) ==
  IndentDepth(text, BracketDepth(Flat(text), 1, 0, 0))

\* extract_functions: the names of the headers (def|operation|function)
\* name( .  In a catalogue text ast.parse accepts, the FunctionDef nodes are
\* the one-line def statements, which are the headers the regex of the
\* except clause finds; for every other text that regex decides.
RECURSIVE FunctionNamesFrom(_, _)
FunctionNamesFrom(toks, from) ==
  IF from > Len(toks) THEN <<>>
  ELSE LET m == IF toks[from] \in {"def", "operation", "function"}
                THEN MatchAt(<<"<w+>", "<s+>", "<w+>", "<s*>", "(">>, toks, from)
                ELSE <<>>
       IN IF m = <<>> THEN FunctionNamesFrom(toks, from + 1)
          ELSE <<toks[m[3]]>> \o FunctionNamesFrom(toks, m[Len(m)])

ExtractFunctions(code) == FunctionNamesFrom(Flat(code), 1)

(***************************************************************************)
(* The parse method of the five parsers, step by step.  parse(code) first  *)
(* stores code and its lines in the parser instance; each extract_* method *)
(* then reads the instance's lines (or code); the metadata are computed    *)
(* from the argument.                                                      *)
(***************************************************************************)
\* self.lines as parse(code) stores it
SplitLines(lang, code) ==
  IF lang = "openqasm" THEN StrippedNonEmpty(code) ELSE code

ExtractImports(lang, lines) ==
  CASE lang = "qiskit" -> QiskitExtractImports(lines)
    [] lang = "cirq" -> CirqExtractImports(lines)
    [] lang = "openqasm" -> OpenQASMExtractImports(lines)
    [] lang = "qsharp" -> QSharpExtractImports(lines)
    [] lang = "python" -> PythonExtractImports(lines)

NoRegisters == [quantum |-> <<>>, classical |-> <<>>]

ExtractRegisters(lang, lines) ==
  CASE lang = "qiskit" -> QiskitExtractRegisters(lines)
    [] lang = "cirq" -> CirqExtractRegisters(lines)
    [] lang = "openqasm" -> OpenQASMExtractRegisters(lines)
    [] lang = "qsharp" -> QSharpExtractRegisters(lines)
    [] lang = "python" -> NoRegisters

\* extract_quantum_operations: Ok(gates) or Raised
ExtractGates(lang, lines) ==
  CASE lang = "qiskit" -> QiskitExtractGates(lines)
    [] lang = "cirq" -> CirqExtractGates(lines)
    [] lang = "openqasm" -> OpenQASMExtractGates(lines)
    [] lang = "qsharp" -> QSharpExtractGates(lines)
    [] lang = "python" -> Ok(<<>>)

ExtractMeasurements(lang, lines) ==
  CASE lang = "qiskit" -> QiskitExtractMeasurements(lines)
    [] lang = "cirq" -> CirqExtractMeasurements(lines)
    [] lang = "openqasm" -> OpenQASMExtractMeasurements(lines)
    [] lang = "qsharp" -> <<>>
    [] lang = "python" -> <<>>

\* the 'functions' entry: Q# reads self.code, OpenQASM has none, the others
\* call extract_functions on the argument
ParseFunctions(lang, code, selfCode) ==
  CASE lang = "qsharp" -> QSharpExtractOperations(selfCode)
    [] lang = "openqasm" -> <<>>
    [] OTHER -> ExtractFunctions(code)

\* metadata['lines_of_code']: OpenQASM counts self.lines, the others call
\* count_lines on the argument
ParseLinesOfCode(lang, code, selfLines) ==
  IF lang = "openqasm" THEN Len(selfLines) ELSE CountLines(code)

\* metadata['loop_count'], ['conditional_count'] and ['nesting_depth']:
\* OpenQASM sets them to 0, the others call count_loops, count_conditionals
\* and calculate_nesting_depth
ParseConditionalCount(lang, code) ==
  IF lang = "openqasm" THEN 0 ELSE CountConditionals(code)

ParseLoopCount(lang, code) ==
  IF lang = "openqasm" THEN 0 ELSE CountLoops(code)

ParseNestingDepth(lang, code) ==
  IF lang = "openqasm" THEN 0 ELSE CalculateNestingDepth(code)

\* the 'metadata' entry of parse
ParseMetadata(lang, code, selfLines) ==
  [lines_of_code |-> ParseLinesOfCode(lang, code, selfLines),
   loop_count |-> ParseLoopCount(lang, code),
   conditional_count |-> ParseConditionalCount(lang, code),
   nesting_depth |-> ParseNestingDepth(lang, code)]

(***************************************************************************)
(* ASTBuilder (modules/ast_builder.py).                                    *)
(***************************************************************************)
EmptyParse ==
  [imports |-> <<>>, registers |-> NoRegisters, gates |-> <<>>,
   measurements |-> <<>>, functions |-> <<>>,
   metadata |-> [lines_of_code |-> 0, loop_count |-> 0,
                 conditional_count |-> 0, nesting_depth |-> 0]]

NoAST ==
  [source_language |-> "none", quantum_registers |-> <<>>,
   classical_registers |-> <<>>, gates |-> <<>>, measurements |-> <<>>,
   imports |-> <<>>, functions |-> <<>>, total_qubits |-> 0,
   total_classical_bits |-> 0, total_gates |-> 0]

\* faulty variant: counts the registers instead of adding up their sizes
BuildASTCountingRegisters(lang, parsed) ==
  [source_language |-> lang,
   quantum_registers |-> parsed.registers.quantum,
   classical_registers |-> parsed.registers.classical,
   gates |-> parsed.gates,
   measurements |-> parsed.measurements,
   imports |-> parsed.imports,
   functions |-> parsed.functions,
   total_qubits |-> Len(parsed.registers.quantum),
   total_classical_bits |-> Len(parsed.registers.classical),
   total_gates |-> Len(parsed.gates)]

\* the UnifiedAST constructed by build from parsed_data
BuildAST(lang, parsed) ==
  [source_language |-> lang,
   quantum_registers |-> parsed.registers.quantum,
   classical_registers |-> parsed.registers.classical,
   gates |-> parsed.gates,
   measurements |-> parsed.measurements,
   imports |-> parsed.imports,
   functions |-> parsed.functions,
   total_qubits |-> SumSizes(parsed.registers.quantum),
   total_classical_bits |-> SumSizes(parsed.registers.classical),
   total_gates |-> Len(parsed.gates)]

\* UnifiedAST declares functions: List[ASTNode]; the parsers deliver
\* dictionaries without the required node_type, which the model validation
\* rejects: constructing the UnifiedAST raises when functions is not empty
BuildRaises(parsed) == parsed.functions # <<>>

\* ASTBuilder.get_metadata
GetMetadata(parsed) ==
  [lines_of_code |-> parsed.metadata.lines_of_code,
   loop_count |-> parsed.metadata.loop_count,
   conditional_count |-> parsed.metadata.conditional_count,
   nesting_depth |-> parsed.metadata.nesting_depth,
   function_count |-> Len(parsed.functions)]

(***************************************************************************)
(* QuantumAnalyzer (modules/quantum_analyzer.py).  Scores are in           *)
(* thousandths.                                                            *)
(***************************************************************************)
\* round(num / den, 3) in thousandths; den > 0.  Ties go to the even
\* neighbour; no tie occurs for gate lists of fewer than 8 gates.
Round3(num, den) ==
  LET x == 1000 * num
      fl == x \div den
      r == x % den
  IN IF 2 * r > den THEN fl + 1
     ELSE IF 2 * r < den THEN fl
     ELSE IF fl % 2 = 0 THEN fl ELSE fl + 1

\* UnifiedAST.get_entangling_gates, counted
EntanglingGateCount(ast) == CountKinds(ast.gates, EntanglingKinds)

\* faulty variant: counts the CNOT/CX gates only
EntanglementScoreCxOnly(ast) ==
  LET entangling == CountKinds(ast.gates, {"CNOT", "CX"})
      total == Max(Len(ast.gates), 1)
      fnum == IF ast.total_qubits > 2 THEN Min(2 * ast.total_qubits, 30) ELSE 20
  IN Min(Round3(entangling * fnum, total * 20), 1000)

\* faulty variant: the qubit factor is never below 1
EntanglementScoreBoostOnly(ast) ==
  LET entangling == EntanglingGateCount(ast)
      total == Max(Len(ast.gates), 1)
      fnum == IF ast.total_qubits > 2
              THEN Max(Min(2 * ast.total_qubits, 30), 20) ELSE 20
  IN Min(Round3(entangling * fnum, total * 20), 1000)

\* calculate_entanglement_score.  The qubit factor min(total_qubits / 10,
\* 1.5) is kept as the fraction fnum / 20.
EntanglementScore(ast) ==
  LET entangling == EntanglingGateCount(ast)
      total == Max(Len(ast.gates), 1)
      fnum == IF ast.total_qubits > 2 THEN Min(2 * ast.total_qubits, 30) ELSE 20
  IN Min(Round3(entangling * fnum, total * 20), 1000)

\* faulty variant: the boosted score is not capped
SuperpositionScoreUncapped(ast) ==
  LET count == CountKinds(ast.gates, SuperpositionKinds)
      total == Max(Len(ast.gates), 1)
  IN IF CountKinds(ast.gates, {"H"}) > 0
     THEN Round3(6 * count, 5 * total)
     ELSE Round3(count, total)

\* calculate_superposition_score: the share of H, RX, RY gates, times 1.2
\* (kept as 6/5) when a Hadamard gate is present, capped at 1.0
SuperpositionScore(ast) ==
  LET count == CountKinds(ast.gates, SuperpositionKinds)
      total == Max(Len(ast.gates), 1)
  IN IF CountKinds(ast.gates, {"H"}) > 0
     THEN Min(Round3(6 * count, 5 * total), 1000)
     ELSE Min(Round3(count, total), 1000)

\* faulty variant: every entangling gate counted
CxGateCountAllEntangling(ast) == CountKinds(ast.gates, EntanglingKinds)

\* analyze, lines 42-44: cx_gates and cx_ratio = cx_gates / max(total_gates,
\* 1), kept as the fraction num / den
CxGateCount(ast) == CountKinds(ast.gates, {"CNOT", "CX"})
CxGateRatio(ast) == [num |-> CxGateCount(ast), den |-> Max(Len(ast.gates), 1)]

\* faulty variant: a circuit is at least one layer deep
CircuitDepthAtLeastOne(ast) ==
  LET totalGates == Len(ast.gates)
      parallelism == Max(ast.total_qubits \div 2, 1)
  IN Max(Max(totalGates \div parallelism, totalGates \div 3), 1)

\* calculate_circuit_depth
CircuitDepth(ast) ==
  LET totalGates == Len(ast.gates)
      parallelism == Max(ast.total_qubits \div 2, 1)
  IN Max(totalGates \div parallelism, totalGates \div 3)

\* estimate_quantum_volume
QuantumVolume(nQubits, depth) ==
  IF nQubits = 0 \/ depth = 0 THEN 0
  ELSE Min(nQubits, depth) * Min(nQubits, depth)

NoQuantumMetrics ==
  [computed |-> FALSE, qubits_required |-> 0, circuit_depth |-> 0,
   gate_count |-> 0, single_qubit_gates |-> 0, two_qubit_gates |-> 0,
   cx_gate_count |-> 0, cx_gate_ratio |-> [num |-> 0, den |-> 1],
   measurement_count |-> 0, superposition_score |-> 0,
   entanglement_score |-> 0,
   has_superposition |-> FALSE, has_entanglement |-> FALSE,
   quantum_volume |-> 0]

\* QuantumAnalyzer.analyze
QuantumAnalyze(ast) ==
  [computed |-> TRUE,
   qubits_required |-> ast.total_qubits,
   circuit_depth |-> CircuitDepth(ast),
   gate_count |-> Len(ast.gates),
   single_qubit_gates |-> CountKinds(ast.gates, SingleQubitKinds),
   two_qubit_gates |-> EntanglingGateCount(ast),
   cx_gate_count |-> CxGateCount(ast),
   cx_gate_ratio |-> CxGateRatio(ast),
   measurement_count |-> Len(ast.measurements),
   superposition_score |-> SuperpositionScore(ast),
   entanglement_score |-> EntanglementScore(ast),
   has_superposition |-> CountKinds(ast.gates, SuperpositionKinds) > 0,
   has_entanglement |-> EntanglingGateCount(ast) > 0,
   quantum_volume |-> QuantumVolume(ast.total_qubits, CircuitDepth(ast))]

(***************************************************************************)
(* ComplexityAnalyzer (modules/complexity_analyzer.py).                    *)
(***************************************************************************)
\* ast.parse(code) raises a SyntaxError on a catalogue line that ends with
\* ':' or '{' (a header without a body) or that starts with two names side
\* by side; every other catalogue line is a Python statement of its own
SyntaxErrorLine(toks) ==
  LET s == Strip(toks) IN
  /\ s # <<>>
  /\ s[1] # "#"
  /\ \/ s[Len(s)] \in {":", "{"}
     \/ /\ Len(s) >= 3
        /\ IsWord(s[1]) /\ s[2] = " " /\ IsWord(s[3])
        /\ s[1] \notin {"import", "from", "def", "return"}

AstParses(text) == \A i \in 1..Len(text) : ~SyntaxErrorLine(text[i])

\* name followed by ( somewhere in toks[from..]: a Call whose func is the
\* Name name
CallsName(toks, name, from) ==
  \E j \in from..Len(toks) :
     /\ toks[j] = name
     /\ (j = 1 \/ toks[j - 1] # ".")
     /\ SkipWs(toks, j + 1) <= Len(toks)
     /\ toks[SkipWs(toks, j + 1)] = "("

\* _has_recursion, lines 147-155: a FunctionDef whose body calls the
\* function's own name; the body of a one-line def is the rest of its line
AstRecursion(text) ==
  \E i \in 1..Len(text) :
     LET m == MatchAt(<<"def", "<s+>", "<w+>", "<s*>", "(">>,
                      Strip(text[i]), 1)
     IN m # <<>> /\ CallsName(Strip(text[i]), Strip(text[i])[m[3]], m[6])

\* a is a suffix of s
EndsWith(s, a) ==
  Len(s) >= Len(a) /\ SubSeq(s, Len(s) - Len(a) + 1, Len(s)) = a

\* _has_recursion, lines 158-159: def\s+(\w+)\s*\([^)]*\):.*\1\s*\( with
\* re.DOTALL; the group is the whole name, [^)]* ends at the first ')' and
\* \1 ends a word that \s*\( follows
RegexRecursion(toks) ==
  \E i \in 1..Len(toks) :
     LET m == MatchAt(<<"def", "<s+>", "<w+>", "<s*>", "(">>, toks, i)
         close == IndexOf(toks, ")", m[6])
     IN /\ m # <<>>
        /\ close + 1 <= Len(toks)
        /\ toks[close + 1] = ":"
        /\ \E j \in (close + 2)..Len(toks) :
              /\ IsWord(toks[j])
              /\ EndsWith(Spelling(toks[j]), Spelling(toks[m[3]]))
              /\ SkipWs(toks, j + 1) <= Len(toks)
              /\ toks[SkipWs(toks, j + 1)] = "("

HasRecursion(code) ==
  IF AstParses(code) THEN AstRecursion(code) ELSE RegexRecursion(Flat(code))

ExponentialTerms == {<<"p", "o", "w">>, <<"*", "*">>, <<"^">>}

SortTerms ==
  {<<"s", "o", "r", "t">>, <<"s", "o", "r", "t", "e", "d">>,
   <<"q", "u", "i", "c", "k", "s", "o", "r", "t">>,
   <<"m", "e", "r", "g", "e", "s", "o", "r", "t">>}

LogTerms == {<<"l", "o", "g">>, <<"b", "i", "n", "a", "r", "y">>}

\* faulty variant: the loop and nesting rules before the recursion rule
EstimateTimeComplexityLoopsFirst(code, metadata) ==
  LET lower == Chars(Flat(code)) IN
  IF Contains(lower, <<"f", "a", "c", "t", "o", "r", "i", "a", "l">>)
     \/ Contains(lower, <<"!">>)
  THEN "FACTORIAL"
  ELSE IF metadata.nesting_depth >= 3 \/ metadata.loop_count >= 3
  THEN "CUBIC"
  ELSE IF metadata.nesting_depth >= 2 \/ metadata.loop_count >= 2
  THEN "QUADRATIC"
  ELSE IF (\E term \in ExponentialTerms : Contains(lower, term))
          /\ HasRecursion(code)
  THEN "EXPONENTIAL"
  ELSE IF metadata.loop_count = 1
  THEN (IF \E term \in SortTerms : Contains(lower, term)
        THEN "LINEARITHMIC" ELSE "LINEAR")
  ELSE IF metadata.loop_count = 0
  THEN (IF \E term \in LogTerms : Contains(lower, term)
        THEN "LOGARITHMIC" ELSE "CONSTANT")
  ELSE "UNKNOWN"

\* estimate_time_complexity
EstimateTimeComplexity(code, metadata) ==
  LET lower == Chars(Flat(code))
      has_factorial ==
        Contains(lower, <<"f", "a", "c", "t", "o", "r", "i", "a", "l">>)
          \/ Contains(lower, <<"!">>)
      has_exponential == \E term \in ExponentialTerms : Contains(lower, term)
      has_recursion == HasRecursion(code)
  IN IF has_factorial THEN "FACTORIAL"
     ELSE IF has_exponential /\ has_recursion THEN "EXPONENTIAL"
     ELSE IF metadata.nesting_depth >= 3 \/ metadata.loop_count >= 3
     THEN "CUBIC"
     ELSE IF metadata.nesting_depth >= 2 \/ metadata.loop_count >= 2
     THEN "QUADRATIC"
     ELSE IF metadata.loop_count = 1
     THEN (IF \E term \in SortTerms : Contains(lower, term)
           THEN "LINEARITHMIC" ELSE "LINEAR")
     ELSE IF metadata.loop_count = 0
     THEN (IF \E term \in LogTerms : Contains(lower, term)
           THEN "LOGARITHMIC" ELSE "CONSTANT")
     ELSE "UNKNOWN"

\* classical_metrics = None
NoClassicalMetrics == [computed |-> FALSE, time_complexity |-> "none"]

\* ComplexityAnalyzer.analyze: the time complexity of the ClassicalComplexity
ClassicalAnalyze(code, metadata) ==
  [computed |-> TRUE,
   time_complexity |-> EstimateTimeComplexity(code, metadata)]

(***************************************************************************)
(* The /analyze handler (main.py).                                         *)
(***************************************************************************)
QuantumNotations == {"qiskit", "cirq", "openqasm", "qsharp"}

NoOutcome == [status |-> 0, cause |-> "none", result |-> <<>>]

\* raise HTTPException(status_code=400, ...) at lines 81-84
Http400 == [status |-> 400, cause |-> "Unsupported language", result |-> <<>>]

\* the handler's except clause (lines 131-132): every exception raised in
\* the try block, the HTTPException of line 81 included, becomes the
\* 500 response "Analysis failed: ..."
ExceptClause(cause) ==
  [status |-> 500, cause |-> cause, result |-> <<>>]

\* faulty variant: 128 bytes for each amplitude
MemoryRequirementOf128(nQubits) ==
  IF nQubits = 0 THEN 10 ELSE Round3(2 ^ nQubits * 128, 1024 * 1024)

\* estimate_memory_requirement, in thousandths of a megabyte: 0.01 for no
\* qubit, else round(2 ** n_qubits * 16 / 1024 ** 2, 3)
MemoryRequirement(nQubits) ==
  IF nQubits = 0 THEN 10 ELSE Round3(2 ^ nQubits * 16, 1024 * 1024)

\* determine_problem_type
DetermineProblemType(code, isQuantum) ==
  LET code_lower == Chars(Flat(code)) IN
  IF ~isQuantum THEN "classical"
  ELSE IF Contains(code_lower, <<"g", "r", "o", "v", "e", "r">>)
          \/ Contains(code_lower, <<"o", "r", "a", "c", "l", "e">>)
  THEN "search"
  ELSE IF Contains(code_lower, <<"v", "q", "e">>)
          \/ Contains(code_lower, <<"q", "a", "o", "a">>)
          \/ Contains(code_lower,
                      <<"o", "p", "t", "i", "m", "i", "z", "e", "r">>)
  THEN "optimization"
  ELSE IF Contains(code_lower, <<"s", "h", "o", "r">>)
          \/ Contains(code_lower, <<"f", "a", "c", "t", "o", "r">>)
  THEN "factorization"
  ELSE IF Contains(code_lower, <<"q", "n", "n">>)
          \/ Contains(code_lower, <<"m", "a", "c", "h", "i", "n", "e">>)
  THEN "machine_learning"
  ELSE IF Contains(code_lower, <<"q", "f", "t">>)
          \/ Contains(code_lower, <<"f", "o", "u", "r", "i", "e", "r">>)
  THEN "sampling"
  ELSE "simulation"

\* faulty variant: the classical verdict whenever there is one
TimeCompClassicalFirst(quantumMetrics, classicalMetrics) ==
  IF classicalMetrics.computed THEN classicalMetrics.time_complexity
  ELSE IF quantumMetrics.has_entanglement THEN "QUANTUM_ADVANTAGE"
  ELSE "LINEAR"

\* build_analysis_result: time_comp
TimeComp(quantumMetrics, classicalMetrics) ==
  IF quantumMetrics.computed
  THEN (IF quantumMetrics.has_entanglement
        THEN "QUANTUM_ADVANTAGE" ELSE "LINEAR")
  ELSE (IF classicalMetrics.computed
        THEN classicalMetrics.time_complexity ELSE "LINEAR")

\* build_analysis_result: the fields of CodeAnalysisResult
AnalysisResult(langResult, problemType, classicalMetrics, quantumMetrics, metadata) ==
  IF quantumMetrics.computed
  THEN [detected_language |-> langResult.language,
        language_confidence |-> langResult.confidence,
        problem_type |-> problemType,
        problem_size |-> quantumMetrics.qubits_required,
        classical_metrics |-> classicalMetrics,
        quantum_metrics |-> quantumMetrics,
        qubits_required |-> quantumMetrics.qubits_required,
        circuit_depth |-> quantumMetrics.circuit_depth,
        gate_count |-> quantumMetrics.gate_count,
        cx_gate_ratio |-> quantumMetrics.cx_gate_ratio,
        superposition_score |-> quantumMetrics.superposition_score,
        entanglement_score |-> quantumMetrics.entanglement_score,
        time_complexity |-> TimeComp(quantumMetrics, classicalMetrics),
        memory_requirement_mb |->
            MemoryRequirement(quantumMetrics.qubits_required),
        is_quantum_eligible |-> TRUE,
        confidence_score |-> langResult.confidence,
        lines_of_code |-> metadata.lines_of_code]
  ELSE [detected_language |-> langResult.language,
        language_confidence |-> langResult.confidence,
        problem_type |-> problemType,
        problem_size |-> metadata.lines_of_code,
        classical_metrics |-> classicalMetrics,
        quantum_metrics |-> quantumMetrics,
        qubits_required |-> 0,
        circuit_depth |-> 0,
        gate_count |-> 0,
        cx_gate_ratio |-> [num |-> 0, den |-> 1],
        superposition_score |-> 0,
        entanglement_score |-> 0,
        time_complexity |-> TimeComp(quantumMetrics, classicalMetrics),
        memory_requirement_mb |-> 1000,
        is_quantum_eligible |-> FALSE,
        confidence_score |-> langResult.confidence,
        lines_of_code |-> metadata.lines_of_code]

\* CodeAnalysisResult declares problem_size with ge=1
ResultRaises(result) == result.problem_size < 1

(***************************************************************************)
(* The catalogue of source lines and the submitted texts.                  *)
(***************************************************************************)
SourceLines ==
  { <<>>,
    <<" ">>,
    <<"from", " ", "qiskit", " ", "import", " ", "QuantumCircuit">>,
    <<"qc", " ", "=", " ", "QuantumCircuit", "(", "2", ",", " ", "2", ")">>,
    <<"#", " ", "QuantumCircuit", "(", "2", ",", " ", "2", ")">>,
    <<"qc", ".", "h", "(", "0", ")">>,
    <<"qc", ".", "cx", "(", "0", ",", " ", "1", ")">>,
    <<"qc", ".", "swap", "(", "0", ",", "1", ")">>,
    <<"qc", ".", "h", "(", "0", ",", ")">>,
    <<"import", " ", "cirq">>,
    <<"q", " ", "=", " ", "cirq", ".", "LineQubit", ".", "range", "(", "3",
      ")">>,
    <<"cirq", ".", "SWAP", "(", "qubits", "[", "0", "]", ",", " ", "qubits",
      "[", "1", "]", ")">>,
    <<"OPENQASM", " ", "2", ".", "0", ";">>,
    <<"qreg", " ", "q", "[", "2", "]", ";">>,
    <<"swap", " ", "q", "[", "0", "]", ",", "q", "[", "1", "]", ";">>,
    <<"using", " ", "(", "qs", " ", "=", " ", "Qubit", "[", "2", "]", ")",
      " ", "{">>,
    <<"SWAP", "(", "qs", "[", "0", "]", ")", ";">>,
    <<"def", " ", "f", "(", "x", ")", ":">>,
    <<"import", " ", "os">>,
    <<"from", " ", "os", " ", "import", " ", "path">>,
    <<"class", " ", "A", ":">>,
    <<"if", " ", "__name__", " ", "==", " ", "'", "__main__", "'", ":">>,
    <<"hello">> }

\* the texts of at most MaxLines lines
Texts == UNION {[1..n -> SourceLines] : n \in 1..MaxLines}

\* the one-line texts
OneLineTexts == {<<l>> : l \in SourceLines}

(***************************************************************************)
(* State.                                                                  *)
(***************************************************************************)
VARIABLES
  parsers,    \* ast_builder.parsers: per notation the instance's code, lines
  calls,      \* per thread the /analyze call it is running
  ncalls,     \* number of requests submitted so far
  log,        \* text and outcome of every completed call, in order
  uast,       \* AstSpec: a unified representation
  qmetrics,   \* AstSpec: the quantum metrics of uast
  assembled   \* AstSpec: the outcome of assembling the result for uast

vars == <<parsers, calls, ncalls, log, uast, qmetrics, assembled>>

Threads == {"a", "b"}

IdleCall ==
  [pc |-> "idle", code |-> << <<>> >>, lang_result |-> Detect(<< <<>> >>),
   phase |-> 0, cur |-> EmptyParse, parsed_data |-> EmptyParse,
   unified_ast |-> NoAST,
   metadata |-> [lines_of_code |-> 0, loop_count |-> 0,
                 conditional_count |-> 0, nesting_depth |-> 0,
                 function_count |-> 0],
   quantum_metrics |-> NoQuantumMetrics,
   classical_metrics |-> NoClassicalMetrics,
   outcome |-> NoOutcome]

\* BaseParser.__init__: self.code = "", self.lines = []
FreshParsers == [l \in Langs |-> [code |-> << <<>> >>, lines |-> <<>>]]

InitServer ==
  /\ parsers = FreshParsers
  /\ calls = [t \in Threads |-> IdleCall]
  /\ ncalls = 0
  /\ log = <<>>

InitNoAst ==
  /\ uast = NoAST
  /\ qmetrics = NoQuantumMetrics
  /\ assembled = NoOutcome

Lang(t) == calls[t].lang_result.language

\* the call of thread t ends with outcome o
Finish(t, o) ==
  /\ calls' = [calls EXCEPT ![t].pc = "done", ![t].outcome = o]
  /\ log' = Append(log, [text |-> calls[t].code, outcome |-> o])

(***************************************************************************)
(* Actions: the steps of analyze_code.                                     *)
(***************************************************************************)
\* a request with the text code arrives at thread t
Submit(t, code) ==
  /\ calls[t].pc \in {"idle", "done"}
  /\ calls' = [calls EXCEPT ![t] = [IdleCall EXCEPT !.pc = "detect",
                                                   !.code = code]]
  /\ ncalls' = ncalls + 1
  /\ UNCHANGED <<parsers, log, uast, qmetrics, assembled>>

\* line 78: lang_result = language_detector.detect(code)
DetectStep(t) ==
  /\ calls[t].pc = "detect"
  /\ LET r == Detect(calls[t].code) IN
     calls' = [calls EXCEPT ![t].lang_result = r,
                            ![t].pc = IF r.is_supported THEN "store"
                                      ELSE "reject",
                            ![t].phase = 1]
  /\ UNCHANGED <<parsers, ncalls, log, uast, qmetrics, assembled>>

\* lines 80-84 and 131-132: the HTTPException(400) is raised inside the try
\* block and caught by its except Exception clause
RejectStep(t) ==
  /\ calls[t].pc = "reject"
  /\ Finish(t, ExceptClause(Http400.cause))
  /\ UNCHANGED <<parsers, ncalls, uast, qmetrics, assembled>>

\* faulty variant: keeps the lines of the earlier texts in front of the new ones
StoredAppending(self, lang, code) ==
  [self EXCEPT !.code = code, !.lines = self.lines \o SplitLines(lang, code)]

\* faulty variant: parse overwrites the retained code and keeps the retained
\* lines
StoreStepKeepingLines(t) ==
  /\ calls[t].pc = "store"
  /\ parsers' = [parsers EXCEPT ![Lang(t)].code = calls[t].code]
  /\ calls' = [calls EXCEPT ![t].pc = "imports", ![t].cur = EmptyParse]
  /\ UNCHANGED <<ncalls, log, uast, qmetrics, assembled>>

\* parse: self.code = code; self.lines = code.split('\n') on the instance
\* self
Stored(self, lang, code) ==
  [self EXCEPT !.code = code, !.lines = SplitLines(lang, code)]

StoreStep(t) ==
  /\ calls[t].pc = "store"
  /\ parsers' = [parsers EXCEPT
       ![Lang(t)] = Stored(parsers[Lang(t)], Lang(t), calls[t].code)]
  /\ calls' = [calls EXCEPT ![t].pc = "imports", ![t].cur = EmptyParse]
  /\ UNCHANGED <<ncalls, log, uast, qmetrics, assembled>>

\* parse: 'imports': self.extract_imports()
ImportsStep(t) ==
  /\ calls[t].pc = "imports"
  /\ calls' = [calls EXCEPT
       ![t].cur.imports = ExtractImports(Lang(t), parsers[Lang(t)].lines),
       ![t].pc = "registers"]
  /\ UNCHANGED <<parsers, ncalls, log, uast, qmetrics, assembled>>

\* parse: 'registers': self.extract_registers()
RegistersStep(t) ==
  /\ calls[t].pc = "registers"
  /\ calls' = [calls EXCEPT
       ![t].cur.registers = ExtractRegisters(Lang(t), parsers[Lang(t)].lines),
       ![t].pc = "gates"]
  /\ UNCHANGED <<parsers, ncalls, log, uast, qmetrics, assembled>>

\* parse: 'gates': self.extract_quantum_operations(); an exception leaves
\* parse and build and reaches the handler's except clause
GatesStep(t) ==
  /\ calls[t].pc = "gates"
  /\ LET g == ExtractGates(Lang(t), parsers[Lang(t)].lines) IN
     IF g.raised
     THEN Finish(t, ExceptClause("ValueError"))
     ELSE /\ calls' = [calls EXCEPT ![t].cur.gates = g.value,
                                    ![t].pc = "measurements"]
          /\ UNCHANGED log
  /\ UNCHANGED <<parsers, ncalls, uast, qmetrics, assembled>>

\* parse: 'measurements': self.extract_measurements()
MeasurementsStep(t) ==
  /\ calls[t].pc = "measurements"
  /\ calls' = [calls EXCEPT
       ![t].cur.measurements =
           ExtractMeasurements(Lang(t), parsers[Lang(t)].lines),
       ![t].pc = "functions"]
  /\ UNCHANGED <<parsers, ncalls, log, uast, qmetrics, assembled>>

\* parse: 'functions'
FunctionsStep(t) ==
  /\ calls[t].pc = "functions"
  /\ calls' = [calls EXCEPT
       ![t].cur.functions =
           ParseFunctions(Lang(t), calls[t].code, parsers[Lang(t)].code),
       ![t].pc = "metadata"]
  /\ UNCHANGED <<parsers, ncalls, log, uast, qmetrics, assembled>>

\* parse: 'metadata', and the return of parse: to line 91 (build, which
\* parses again) after the first parse, to line 49 of build after the second
MetadataStep(t) ==
  /\ calls[t].pc = "metadata"
  /\ LET done == [calls[t].cur EXCEPT !.metadata =
                    ParseMetadata(Lang(t), calls[t].code,
                                  parsers[Lang(t)].lines)]
     IN IF calls[t].phase = 1
        THEN calls' = [calls EXCEPT ![t].parsed_data = done,
                                    ![t].cur = done,
                                    ![t].phase = 2,
                                    ![t].pc = "store"]
        ELSE calls' = [calls EXCEPT ![t].cur = done, ![t].pc = "build"]
  /\ UNCHANGED <<parsers, ncalls, log, uast, qmetrics, assembled>>

\* build, lines 49-74, and line 92: metadata = get_metadata(parsed_data)
BuildStep(t) ==
  /\ calls[t].pc = "build"
  /\ IF BuildRaises(calls[t].cur)
     THEN Finish(t, ExceptClause("ValidationError: functions"))
     ELSE /\ calls' = [calls EXCEPT
                ![t].unified_ast = BuildAST(Lang(t), calls[t].cur),
                ![t].metadata = GetMetadata(calls[t].parsed_data),
                ![t].pc = "analyze"]
          /\ UNCHANGED log
  /\ UNCHANGED <<parsers, ncalls, uast, qmetrics, assembled>>

\* faulty variant: the classical analysis runs for every text
AnalyzeStepAlwaysClassical(t) ==
  /\ calls[t].pc = "analyze"
  /\ calls' = [calls EXCEPT
       ![t].quantum_metrics = IF Lang(t) \in QuantumNotations
                              THEN QuantumAnalyze(calls[t].unified_ast)
                              ELSE NoQuantumMetrics,
       ![t].classical_metrics =
           ClassicalAnalyze(calls[t].code, calls[t].metadata),
       ![t].pc = "result"]
  /\ UNCHANGED <<parsers, ncalls, log, uast, qmetrics, assembled>>

\* lines 95-114: the quantum and the classical analysis
AnalyzeStep(t) ==
  /\ calls[t].pc = "analyze"
  /\ LET isQuantum == Lang(t) \in QuantumNotations IN
     calls' = [calls EXCEPT
       ![t].quantum_metrics = IF isQuantum
                              THEN QuantumAnalyze(calls[t].unified_ast)
                              ELSE NoQuantumMetrics,
       ![t].classical_metrics =
           IF isQuantum /\ ~(calls[t].metadata.lines_of_code > 0)
           THEN NoClassicalMetrics
           ELSE ClassicalAnalyze(calls[t].code, calls[t].metadata),
       ![t].pc = "result"]
  /\ UNCHANGED <<parsers, ncalls, log, uast, qmetrics, assembled>>

\* lines 117-129: build_analysis_result and the response
ResultStep(t) ==
  /\ calls[t].pc = "result"
  /\ LET r == AnalysisResult(calls[t].lang_result,
                             DetermineProblemType(calls[t].code,
                               Lang(t) \in QuantumNotations),
                             calls[t].classical_metrics,
                             calls[t].quantum_metrics, calls[t].metadata)
     IN IF ResultRaises(r)
        THEN Finish(t, ExceptClause("ValidationError: problem_size"))
        ELSE Finish(t, [status |-> 200, cause |-> "none", result |-> r])
  /\ UNCHANGED <<parsers, ncalls, uast, qmetrics, assembled>>

Step(t) ==
  \/ DetectStep(t)
  \/ RejectStep(t)
  \/ StoreStep(t)
  \/ ImportsStep(t)
  \/ RegistersStep(t)
  \/ GatesStep(t)
  \/ MeasurementsStep(t)
  \/ FunctionsStep(t)
  \/ MetadataStep(t)
  \/ BuildStep(t)
  \/ AnalyzeStep(t)
  \/ ResultStep(t)

(***************************************************************************)
(* Spec: one request, any text, on a freshly started process.              *)
(***************************************************************************)
SubmitOne == ncalls = 0 /\ \E code \in Texts : Submit("a", code)

Init == InitServer /\ InitNoAst

Next == SubmitOne \/ Step("a")

Spec == Init /\ [][Next]_vars


(***************************************************************************)
(* A call run alone: the steps of analyze_code in program order on         *)
(* instances no other call touches.                                        *)
(***************************************************************************)
\* parser.parse(code), with no other call between its statements
ParseAlone(lang, code) ==
  LET self == Stored(FreshParsers[lang], lang, code)
      g == ExtractGates(lang, self.lines)
  IN IF g.raised THEN Raised
     ELSE Ok([imports |-> ExtractImports(lang, self.lines),
              registers |-> ExtractRegisters(lang, self.lines),
              gates |-> g.value,
              measurements |-> ExtractMeasurements(lang, self.lines),
              functions |-> ParseFunctions(lang, code, self.code),
              metadata |-> ParseMetadata(lang, code, self.lines)])

\* analyze_code(request), with no other call between its statements
AnalyzeAlone(code) ==
  LET r == Detect(code)
      p == ParseAlone(r.language, code)
  IN IF ~r.is_supported THEN ExceptClause(Http400.cause)
     ELSE IF p.raised THEN ExceptClause("ValueError")
     ELSE IF BuildRaises(p.value)
          THEN ExceptClause("ValidationError: functions")
     ELSE LET ast == BuildAST(r.language, p.value)
              isQuantum == r.language \in QuantumNotations
              metadata == GetMetadata(p.value)
              res == AnalysisResult(r,
                       DetermineProblemType(code, isQuantum),
                       IF isQuantum /\ ~(metadata.lines_of_code > 0)
                       THEN NoClassicalMetrics
                       ELSE ClassicalAnalyze(code, metadata),
                       IF isQuantum THEN QuantumAnalyze(ast)
                       ELSE NoQuantumMetrics,
                       metadata)
          IN IF ResultRaises(res)
             THEN ExceptClause("ValidationError: problem_size")
             ELSE [status |-> 200, cause |-> "none", result |-> res]

(***************************************************************************)
(* SeqSpec: up to MaxCalls requests, one after the other, on one process.  *)
(***************************************************************************)
\* the one-line texts detect accepts, one it rejects and the empty text (a
\* rejected text never reaches a parser)
SeqTexts ==
  {code \in OneLineTexts : Detect(code).is_supported}
    \cup {<< <<"hello">> >>, << <<>> >>}

SubmitSeq == ncalls < MaxCalls /\ \E code \in SeqTexts : Submit("a", code)

SeqNext == SubmitSeq \/ Step("a")

SeqSpec == Init /\ [][SeqNext]_vars

(***************************************************************************)
(* ParSpec: two requests served by two threads of one process.             *)
(***************************************************************************)
SubmitPar(t) ==
  /\ calls[t].pc = "idle"
  /\ \E code \in OneLineTexts : Submit(t, code)

ParNext == \E t \in Threads : SubmitPar(t) \/ Step(t)

ParSpec == Init /\ [][ParNext]_vars

(***************************************************************************)
(* AstSpec: a unified representation that grows gate by gate.              *)
(***************************************************************************)
AstKinds == EntanglingKinds \cup {"H", "MEASURE"}

\* a representation with a quantum and a classical register of size q (none
\* for q = 0) and no gates
AstOf(q) ==
  [NoAST EXCEPT !.source_language = "qiskit",
                !.quantum_registers =
                    IF q = 0 THEN <<>>
                    ELSE <<RegisterNode([base |-> "q", idx |-> -1], q, 1)>>,
                !.classical_registers =
                    IF q = 0 THEN <<>>
                    ELSE <<RegisterNode([base |-> "c", idx |-> -1], q, 1)>>,
                !.total_qubits = q,
                !.total_classical_bits = q]

\* what detect returns for the text of the representation
AstLangResult ==
  Detect(<< <<"qc", " ", "=", " ", "QuantumCircuit", "(", "2", ",", " ", "2",
              ")">> >>)

\* lines 117-132 for the representation ast with the metrics qm: the
\* assembled result, or the failure of its validation.  The text behind ast
\* is a register line followed by one line for each gate: no keyword, no
\* loop, brackets one deep
AssembleOutcome(ast, qm) ==
  LET metadata == [lines_of_code |-> 1 + Len(ast.gates), loop_count |-> 0,
                   conditional_count |-> 0,
                   nesting_depth |-> 1, function_count |-> 0]
      r == AnalysisResult(AstLangResult, "simulation",
                          [computed |-> TRUE, time_complexity |-> "CONSTANT"],
                          qm, metadata)
  IN IF ResultRaises(r) THEN ExceptClause("ValidationError: problem_size")
     ELSE [status |-> 200, cause |-> "none", result |-> r]

AstInit ==
  /\ InitServer
  /\ \E q \in 0..MaxQubits : uast = AstOf(q)
  /\ qmetrics = QuantumAnalyze(uast)
  /\ assembled = AssembleOutcome(uast, qmetrics)

\* one more gate at the end of the gate list; the analyzer and the result
\* assembly run again
AppendGate(kind) ==
  /\ Len(uast.gates) < MaxGates
  /\ LET line == Len(uast.gates) + 2
         g == QuantumGateNode(kind, <<0>>, <<>>, FALSE, line)
     IN uast' = [uast EXCEPT !.gates = Append(@, g),
                             !.total_gates = Len(uast.gates) + 1]
  /\ qmetrics' = QuantumAnalyze(uast')
  /\ assembled' = AssembleOutcome(uast', qmetrics')
  /\ UNCHANGED <<parsers, calls, ncalls, log>>

AstNext == \E kind \in AstKinds : AppendGate(kind)

AstSpec == AstInit /\ [][AstNext]_vars


(***************************************************************************)
(* Properties.                                                             *)
(***************************************************************************)
\* detect has just returned to the call of thread t (line 78)
Detected(t) ==
  \/ calls[t].pc = "reject"
  \/ calls[t].pc = "store" /\ calls[t].phase = 1
Done(t) == calls[t].pc = "done"

\* C1: a call whose text detect reports as unsupported ends with the 400
\* rejection, never with the 500 analysis-failed outcome.
C1_UnsupportedIsRejectedWith400 ==
  \A t \in Threads :
    Done(t) /\ ~calls[t].lang_result.is_supported
      => calls[t].outcome.status = 400

\* C1, in the code: the unsupported text "hello" ends with status 500
C1_UnsupportedEndsWith500 ==
  /\ Done("a")
  /\ calls["a"].code = << <<"hello">> >>
  /\ ~calls["a"].lang_result.is_supported
  /\ calls["a"].outcome = [status |-> 500, cause |-> "Unsupported language",
                           result |-> <<>>]

\* C2: parse never raises: no call ends because an extractor raised.
C2_ParseNeverRaises ==
  \A t \in Threads : Done(t) => calls[t].outcome.cause # "ValueError"

\* C2, in the code: the gate call qc.h(0,) makes the Qiskit extractor raise
C2_EmptyItemRaises ==
  /\ Done("a")
  /\ calls["a"].lang_result.language = "qiskit"
  /\ calls["a"].code[Len(calls["a"].code)]
       = <<"qc", ".", "h", "(", "0", ",", ")">>
  /\ calls["a"].outcome.status = 500
  /\ calls["a"].outcome.cause = "ValueError"

\* C3: every gate operation an extractor produces has is_controlled exactly
\* when its kind is one of CNOT, CX, CZ, SWAP, TOFFOLI, FREDKIN.
C3_ControlledIffEntangling ==
  \A t \in Threads :
    \A i \in 1..Len(calls[t].cur.gates) :
      calls[t].cur.gates[i].is_controlled
        <=> calls[t].cur.gates[i].gate_type \in EntanglingKinds

\* C3, in the code: an extracted SWAP gate that is not marked controlled
C3_UncontrolledSwap ==
  /\ calls["a"].lang_result.language = "qiskit"
  /\ \E i \in 1..Len(calls["a"].cur.gates) :
       /\ calls["a"].cur.gates[i].gate_type = "SWAP"
       /\ ~calls["a"].cur.gates[i].is_controlled

\* C4: under every interleaving of two parallel calls, each call returns
\* the outcome it returns when it runs alone on its text.
C4_ParallelAsAlone ==
  \A t \in Threads : Done(t) => calls[t].outcome = AnalyzeAlone(calls[t].code)

\* C4, in the code: both calls are finished and one of them, accepted when
\* run alone, failed
C4_ParallelDiffers ==
  /\ \A t \in Threads : Done(t)
  /\ \E t \in Threads :
       /\ AnalyzeAlone(calls[t].code).status = 200
       /\ calls[t].outcome.status = 500

\* C5: analyze is deterministic: any two completed calls on the same text,
\* whatever calls came before them, have the same outcome.
C5_Deterministic ==
  \A i, j \in 1..Len(log) :
    log[i].text = log[j].text => log[i].outcome = log[j].outcome

\* C5 witness: a text analyzed with success, then another text of the same
\* notation, then the first text again
C5_SameTextAgain ==
  /\ Len(log) = 3
  /\ log[1].text = log[3].text
  /\ log[2].text # log[1].text
  /\ log[1].outcome.status = 200
  /\ Detect(log[2].text).language = Detect(log[1].text).language

AllWhitespace(text) ==
  \A i \in 1..Len(text) : \A k \in 1..Len(text[i]) : text[i][k] = " "

\* C6: detect on an empty or whitespace-only text returns Unknown,
\* confidence 0, supported = false, by the early return that evaluates no
\* signature.
C6_BlankIsUnknown ==
  \A t \in Threads :
    Detected(t) /\ AllWhitespace(calls[t].code)
      => calls[t].lang_result =
           [language |-> "unknown", confidence |-> 0, is_supported |-> FALSE,
            details |-> [msg |-> "Empty code provided", score |-> 0,
                         matched |-> <<>>]]

\* C6 witness: a text of two lines, one empty and one of a single blank
C6_BlankDetected ==
  /\ Detected("a")
  /\ calls["a"].code = << <<>>, <<" ">> >>
  /\ calls["a"].lang_result.language = "unknown"

\* the signatures of notation lang that the text matches
MatchedSet(lang, text) ==
  {k \in 1..Len(Signatures(lang)) : SignatureMatches(lang, k, Flat(text))}

\* C7: a text that matches at least one signature of a notation N and no
\* signature of another notation is detected as N, supported, with
\* confidence = distinct signatures of N matched / signatures of N, a value
\* in (0, 1] (confidence is kept in thousandths).
C7_SoleNotationConfidence ==
  \A t \in Threads :
    Detected(t) =>
      LET r == calls[t].lang_result
          ms == <<MatchedSet(QuantumLangs[1], calls[t].code),
                  MatchedSet(QuantumLangs[2], calls[t].code),
                  MatchedSet(QuantumLangs[3], calls[t].code),
                  MatchedSet(QuantumLangs[4], calls[t].code)>>
      IN \A n \in 1..Len(QuantumLangs) :
           ( /\ ms[n] # {}
             /\ \A m \in 1..Len(QuantumLangs) : m # n => ms[m] = {} )
           => /\ r.language = QuantumLangs[n]
              /\ r.is_supported
              /\ r.confidence * Len(Signatures(QuantumLangs[n]))
                   = 1000 * Cardinality(ms[n])
              /\ r.confidence > 0
              /\ r.confidence <= 1000

\* C7 witness: a Cirq text matching two of the four Cirq signatures, one of
\* them on both lines
C7_TwoOfFour ==
  /\ Detected("a")
  /\ calls["a"].code =
       << <<"import", " ", "cirq">>,
          <<"q", " ", "=", " ", "cirq", ".", "LineQubit", ".", "range", "(",
            "3", ")">> >>
  /\ calls["a"].lang_result.language = "cirq"
  /\ calls["a"].lang_result.confidence = 500

\* the generic structural indicators present in the text: function
\* definition, class definition, import statement, main-module idiom
IndicatorsPresent(text) ==
  LET toks == Flat(text)
      has(k) == Found(PythonIndicators[k], toks)
  IN {c \in {"function", "class", "import", "main"} :
        \/ c = "function" /\ has(1)
        \/ c = "class" /\ has(2)
        \/ c = "import" /\ (has(3) \/ has(4))
        \/ c = "main" /\ has(5)}

NoQuantumScore(text) ==
  \A n \in 1..Len(QuantumLangs) : MatchedSet(QuantumLangs[n], text) = {}

\* C8: with no quantum notation scoring, detect returns the host language
\* with confidence 0.7, supported, exactly when at least two of the four
\* generic indicators are present; otherwise Unknown, 0, unsupported.
C8_TwoIndicators ==
  \A t \in Threads :
    LET r == calls[t].lang_result IN
    Detected(t) /\ NoQuantumScore(calls[t].code)
      => IF Cardinality(IndicatorsPresent(calls[t].code)) >= 2
         THEN r.language = "python" /\ r.confidence = 700 /\ r.is_supported
         ELSE r.language = "unknown" /\ r.confidence = 0 /\ ~r.is_supported

\* C8, in the code: the single import statement "from os import path" is
\* classified as the host language
C8_SingleImportIsPython ==
  /\ Detected("a")
  /\ calls["a"].code = << <<"from", " ", "os", " ", "import", " ", "path">> >>
  /\ IndicatorsPresent(calls["a"].code) = {"import"}
  /\ calls["a"].lang_result.language = "python"
  /\ calls["a"].lang_result.confidence = 700

RECURSIVE SizeSum(_)
SizeSum(regs) ==
  IF regs = <<>> THEN 0 ELSE regs[1].size + SizeSum(Tail(regs))

\* C9: every unified representation the builder returns has total_qubits =
\* sum of its quantum register sizes, total_classical_bits = sum of its
\* classical register sizes, total_gates = length of its gate list.
C9_TotalsMatchLists ==
  \A t \in Threads :
    LET ast == calls[t].unified_ast IN
    calls[t].pc \in {"analyze", "result", "done"} /\ ast # NoAST
      => /\ ast.total_qubits = SizeSum(ast.quantum_registers)
         /\ ast.total_classical_bits = SizeSum(ast.classical_registers)
         /\ ast.total_gates = Len(ast.gates)

\* C9 witness: a built representation with two qubits, two classical bits
\* and one gate
C9_BuiltWithGate ==
  /\ calls["a"].pc = "analyze"
  /\ calls["a"].unified_ast.total_qubits = 2
  /\ calls["a"].unified_ast.total_classical_bits = 2
  /\ calls["a"].unified_ast.total_gates = 1
  /\ Len(calls["a"].unified_ast.quantum_registers) = 1

\* C10: appending one entangling gate, registers and the other gates
\* unchanged, never decreases the entanglement score.
C10_EntanglingGateMonotone ==
  [][ ( /\ Len(uast'.gates) = Len(uast.gates) + 1
        /\ SubSeq(uast'.gates, 1, Len(uast.gates)) = uast.gates
        /\ uast'.gates[Len(uast'.gates)].gate_type \in EntanglingKinds
        /\ uast'.quantum_registers = uast.quantum_registers
        /\ uast'.total_qubits = uast.total_qubits )
      => qmetrics'.entanglement_score >= qmetrics.entanglement_score ]_vars

\* C10 witness: a SWAP gate appended after a Hadamard and a CX gate on more
\* than two qubits, with a score strictly between 0 and 1
C10_SwapAppended ==
  /\ Len(uast.gates) = 3
  /\ uast.gates[1].gate_type = "H"
  /\ uast.gates[2].gate_type = "CX"
  /\ uast.gates[3].gate_type = "SWAP"
  /\ uast.total_qubits = 5
  /\ qmetrics.entanglement_score = 333


\* the quantum analyzer has returned to the call of thread t (line 107)
Analyzed(t) ==
  calls[t].pc \in {"result", "done"} /\ calls[t].quantum_metrics.computed

\* C11: for a representation with zero gates, whatever its registers and
\* measurements, the analyzer returns superposition score 0, entanglement
\* score 0, CX ratio 0, circuit depth 0 and quantum volume 0.
C11_ZeroGatesZeroMetrics ==
  \A t \in Threads :
    LET m == calls[t].quantum_metrics IN
    Analyzed(t) /\ Len(calls[t].unified_ast.gates) = 0
      => /\ m.superposition_score = 0
         /\ m.entanglement_score = 0
         /\ m.cx_gate_ratio.num = 0
         /\ m.cx_gate_ratio.den > 0
         /\ m.circuit_depth = 0
         /\ m.quantum_volume = 0

\* C11 witness: the analyzed representation of a Qiskit text with two
\* registers of two qubits and of two bits each and no gate
C11_NoGatesAnalyzed ==
  /\ Analyzed("a")
  /\ calls["a"].unified_ast.source_language = "qiskit"
  /\ Len(calls["a"].unified_ast.gates) = 0
  /\ calls["a"].unified_ast.total_qubits = 4
  /\ calls["a"].unified_ast.total_classical_bits = 4
  /\ calls["a"].quantum_metrics.qubits_required = 4


\* C12: for an eight-qubit representation the memory estimate, 2^8 x 16
\* bytes in megabytes rounded to 3 decimals, is 0.031 MB.
C12_EightQubitsIs31 ==
  uast.total_qubits = 8 /\ assembled.status = 200
    => assembled.result.memory_requirement_mb = 31

\* C12, amended: for an eight-qubit representation the memory estimate is
\* 0.004 MB (4096 bytes are 0.00390625 MB).
C12_EightQubitsIs4 ==
  uast.total_qubits = 8 /\ assembled.status = 200
    => assembled.result.memory_requirement_mb = 4

\* C12 witness: the result assembled for an eight-qubit representation
\* with two gates carries the estimate 0.004 MB
C12_EightQubitResult ==
  /\ uast.total_qubits = 8
  /\ Len(uast.gates) = 2
  /\ assembled.status = 200
  /\ assembled.result.qubits_required = 8
  /\ assembled.result.memory_requirement_mb = 4


\* the kinds of the gates of a representation, in order
KindsOf(ast) == [i \in 1..Len(ast.gates) |-> ast.gates[i].gate_type]

MaxKeyLines == 2

\* a declaration line for each of Q#, Qiskit and plain Python
BaseLines ==
  { <<"using", " ", "(", "qs", " ", "=", " ", "Qubit", "[", "2", "]", ")",
      " ", "{">>,
    <<"qc", " ", "=", " ", "QuantumCircuit", "(", "2", ",", " ", "2", ")">>,
    <<"from", " ", "os", " ", "import", " ", "path">> }

ClsLines ==
  { <<"def", " ", "f", "(", "x", ")", ":", " ", "return", " ", "f", "(", "x",
      ")", " ", "*", "*", " ", "2">>,
    <<"for", " ", "i", " ", "in", " ", "range", "(", "3", ")", ":">>,
    <<"y", " ", "=", " ", "a", "(", "b", "(", "c", "(", "1", ")", ")", ")">>,
    <<"#", " ", "factorial">>,
    <<"#", " ", "sorted">>,
    <<"#", " ", "log">>,
    <<"qc", ".", "cx", "(", "0", ",", " ", "1", ")">> }

\* the texts of at most max lines drawn from lines
LinesUpTo(lines, max) == UNION {[1..n -> lines] : n \in 0..max}

ClsTexts ==
  {<<b>> \o k : b \in BaseLines, k \in LinesUpTo(ClsLines, MaxKeyLines)}
    \cup {<<l>> : l \in ClsLines}

SubmitCls == ncalls = 0 /\ \E code \in ClsTexts : Submit("a", code)

ClsNext == SubmitCls \/ Step("a")

ClsSpec == Init /\ [][ClsNext]_vars

\* the classical analyzer has returned in the call of thread t
ClassicalDone(t) ==
  calls[t].pc \in {"result", "done"} /\ calls[t].classical_metrics.computed

\* the patterns of the decision list, read off the text
FactorialPattern(text) ==
  \E i \in 1..Len(text) : \E j \in 1..Len(text[i]) :
     text[i][j] \in {"factorial", "!"}

ExponentialKeyword(text) ==
  \E i \in 1..Len(text) : \E j \in 1..Len(text[i]) :
     \/ text[i][j] \in {"pow", "^"}
     \/ text[i][j] = "*" /\ j < Len(text[i]) /\ text[i][j + 1] = "*"

SortKeyword(text) ==
  \E i \in 1..Len(text) : \E j \in 1..Len(text[i]) :
     text[i][j] \in {"sort", "sorted", "quicksort", "mergesort"}

LogKeyword(text) ==
  \E i \in 1..Len(text) : \E j \in 1..Len(text[i]) :
     text[i][j] \in {"log", "binary"}

\* C14: the time-complexity class is the first matching rule of: factorial
\* pattern -> FACTORIAL; exponential keyword and self-recursion ->
\* EXPONENTIAL; nesting >= 3 or loops >= 3 -> CUBIC; nesting >= 2 or loops
\* >= 2 -> QUADRATIC; one loop -> LINEARITHMIC with a sorting keyword, else
\* LINEAR; no loop -> LOGARITHMIC with a log/binary keyword, else CONSTANT;
\* a self-recursive text with an exponential keyword and no factorial
\* pattern is EXPONENTIAL whatever its loop count and nesting depth.
C14_FirstMatchingRule ==
  ClassicalDone("a") =>
    LET code == calls["a"].code
        loops == calls["a"].metadata.loop_count
        depth == calls["a"].metadata.nesting_depth
        fact == FactorialPattern(code)
        expRec == ExponentialKeyword(code) /\ HasRecursion(code)
        verdict == calls["a"].classical_metrics.time_complexity
    IN verdict =
         CASE fact -> "FACTORIAL"
           [] ~fact /\ expRec -> "EXPONENTIAL"
           [] ~fact /\ ~expRec /\ (depth >= 3 \/ loops >= 3) -> "CUBIC"
           [] ~fact /\ ~expRec /\ depth < 3 /\ loops < 3
                /\ (depth = 2 \/ loops = 2) -> "QUADRATIC"
           [] ~fact /\ ~expRec /\ depth < 2 /\ loops = 1 ->
                IF SortKeyword(code) THEN "LINEARITHMIC" ELSE "LINEAR"
           [] ~fact /\ ~expRec /\ depth < 2 /\ loops = 0 ->
                IF LogKeyword(code) THEN "LOGARITHMIC" ELSE "CONSTANT"
           [] OTHER -> "UNKNOWN"

\* C14 witness: a self-recursive text with an exponential keyword, no
\* factorial pattern, one loop and brackets two deep is EXPONENTIAL
C14_RecursiveExponential ==
  /\ ClassicalDone("a")
  /\ HasRecursion(calls["a"].code)
  /\ ExponentialKeyword(calls["a"].code)
  /\ ~FactorialPattern(calls["a"].code)
  /\ calls["a"].metadata.loop_count = 1
  /\ calls["a"].metadata.nesting_depth >= 2
  /\ calls["a"].classical_metrics.time_complexity = "EXPONENTIAL"


(***************************************************************************)
(* TypeSpec: one request whose text is a declaration line followed by      *)
(* comment lines that name an algorithm.                                   *)
(***************************************************************************)
TypeBases ==
  { <<"qc", " ", "=", " ", "QuantumCircuit", "(", "2", ",", " ", "2", ")">>,
    <<"from", " ", "os", " ", "import", " ", "path">> }

TypeWords ==
  {"search", "grover", "oracle", "vqe", "factor", "machine", "qft"}

TypeLines == {<<"#", " ", w>> : w \in TypeWords}

TypeTexts ==
  {<<b>> \o k : b \in TypeBases, k \in LinesUpTo(TypeLines, MaxKeyLines)}
    \cup {<<l>> : l \in TypeLines}

SubmitType == ncalls = 0 /\ \E code \in TypeTexts : Submit("a", code)

TypeNext == SubmitType \/ Step("a")

TypeSpec == Init /\ [][TypeNext]_vars

\* one of the words ws is a lexeme of text
HasWord(text, ws) ==
  \E i \in 1..Len(text) : \E j \in 1..Len(text[i]) : text[i][j] \in ws

\* the call of thread t has returned an Analysis Result
Answered(t) == calls[t].pc = "done" /\ calls[t].outcome.status = 200

\* C15: the problem type is the first match of: 'search' or 'oracle' ->
\* SEARCH; 'vqe', 'qaoa' or 'optimizer' -> OPTIMIZATION; 'factor' or 'shor'
\* -> FACTORIZATION; 'qnn' or 'machine' -> MACHINE_LEARNING; 'qft' or
\* 'fourier' -> SAMPLING; else SIMULATION for a quantum submission and
\* CLASSICAL for a classical one.
C15_SearchKeywordFirst ==
  Answered("a") =>
    LET code == calls["a"].code
        type == calls["a"].outcome.result.problem_type
    IN type =
         IF HasWord(code, {"search", "oracle"}) THEN "search"
         ELSE IF HasWord(code, {"vqe", "qaoa", "optimizer"})
         THEN "optimization"
         ELSE IF HasWord(code, {"factor", "shor"}) THEN "factorization"
         ELSE IF HasWord(code, {"qnn", "machine"}) THEN "machine_learning"
         ELSE IF HasWord(code, {"qft", "fourier"}) THEN "sampling"
         ELSE IF Lang("a") \in QuantumNotations THEN "simulation"
         ELSE "classical"

\* C15 witness: a Qiskit text whose only keyword is 'search' is answered
\* with the problem type SIMULATION
C15_SearchIsSimulation ==
  /\ Answered("a")
  /\ Lang("a") = "qiskit"
  /\ HasWord(calls["a"].code, {"search"})
  /\ ~HasWord(calls["a"].code, TypeWords \ {"search"})
  /\ calls["a"].outcome.result.problem_type = "simulation"


\* C16: in every Analysis Result for a quantum submission time_complexity is
\* QUANTUM_ADVANTAGE if the representation holds an entangling gate and
\* LINEAR otherwise, whatever the classical analyzer found; for a classical
\* submission it is the classical analyzer's verdict.
C16_TimeComplexityOfResult ==
  Answered("a") =>
    LET r == calls["a"].outcome.result
        gates == calls["a"].unified_ast.gates
    IN IF Lang("a") \in QuantumNotations
       THEN r.time_complexity =
              IF \E i \in 1..Len(gates) : gates[i].gate_type \in EntanglingKinds
              THEN "QUANTUM_ADVANTAGE" ELSE "LINEAR"
       ELSE /\ calls["a"].classical_metrics.computed
            /\ r.time_complexity =
                 calls["a"].classical_metrics.time_complexity

\* C16 witness: a quantum text with an entangling gate that the classical
\* analyzer calls FACTORIAL is answered with QUANTUM_ADVANTAGE
C16_EntangledDespiteVerdict ==
  /\ Answered("a")
  /\ Lang("a") \in QuantumNotations
  /\ \E i \in 1..Len(calls["a"].unified_ast.gates) :
        calls["a"].unified_ast.gates[i].gate_type \in EntanglingKinds
  /\ calls["a"].classical_metrics.time_complexity = "FACTORIAL"
  /\ calls["a"].outcome.result.time_complexity = "QUANTUM_ADVANTAGE"


\* C17: for every representation the quantum metrics satisfy 0 <= CX ratio
\* <= 1, 0 <= superposition score <= 1, 0 <= entanglement score <= 1,
\* circuit depth >= 0 and quantum volume >= 0 (scores in thousandths).
C17_MetricsInRange ==
  /\ qmetrics.cx_gate_ratio.den > 0
  /\ 0 <= qmetrics.cx_gate_ratio.num
  /\ qmetrics.cx_gate_ratio.num <= qmetrics.cx_gate_ratio.den
  /\ 0 <= qmetrics.superposition_score /\ qmetrics.superposition_score <= 1000
  /\ 0 <= qmetrics.entanglement_score /\ qmetrics.entanglement_score <= 1000
  /\ qmetrics.circuit_depth >= 0
  /\ qmetrics.quantum_volume >= 0

\* C17 witness: the metrics of a representation of Hadamard gates only,
\* whose boosted superposition score is cut to 1
C17_AllHadamard ==
  /\ Len(uast.gates) = MaxGates
  /\ \A i \in 1..Len(uast.gates) : uast.gates[i].gate_type = "H"
  /\ qmetrics.superposition_score = 1000
  /\ qmetrics.gate_count = MaxGates


\* the analysis step of the call of thread t has run
PastAnalysis(t) == calls[t].pc = "result" \/ Answered(t)

\* C18: quantum metrics are computed iff the detected notation is one of the
\* four quantum notations and is_quantum_eligible iff they were computed;
\* the classical analyzer runs for every Python text and for a quantum text
\* exactly when the extracted line count is > 0; no extraction or analysis
\* step runs before detection has reported the text as supported.
C18_AnalyzersByNotation ==
  LET c == calls["a"] IN
  /\ PastAnalysis("a") =>
       /\ c.quantum_metrics.computed <=> Lang("a") \in QuantumNotations
       /\ c.classical_metrics.computed <=>
            (Lang("a") = "python" \/ c.metadata.lines_of_code > 0)
  /\ Answered("a") =>
       (c.outcome.result.is_quantum_eligible <=> c.quantum_metrics.computed)
  /\ Detected("a") => c.lang_result = Detect(c.code)
  /\ c.pc \notin {"idle", "detect", "reject", "done"} =>
       c.lang_result.is_supported
  /\ ~c.lang_result.is_supported =>
       /\ parsers = FreshParsers
       /\ c.cur = EmptyParse
       /\ c.unified_ast = NoAST
       /\ ~c.quantum_metrics.computed
       /\ ~c.classical_metrics.computed

\* C18 witness: a quantum text without a line of code is answered with
\* quantum metrics and without classical metrics
C18_QuantumWithoutCode ==
  /\ Answered("a")
  /\ Lang("a") \in QuantumNotations
  /\ calls["a"].metadata.lines_of_code = 0
  /\ calls["a"].quantum_metrics.computed
  /\ ~calls["a"].classical_metrics.computed
  /\ calls["a"].outcome.result.is_quantum_eligible


\* the qubit arguments of an extracted gate, in the order of the statement
ArgumentsOf(gate) == gate.control_qubits \o gate.qubits

\* C19: in Qiskit and OpenQASM extraction every gate of an entangling kind
\* (SWAP included) with two or more qubit arguments has the last argument
\* as its only target and the preceding arguments as its controls; with one
\* argument its control list is empty.
C19_LastArgumentIsTarget ==
  Lang("a") \in {"qiskit", "openqasm"} =>
    \A i \in 1..Len(calls["a"].cur.gates) :
      LET g == calls["a"].cur.gates[i] IN
      g.gate_type \in EntanglingKinds =>
        IF Len(ArgumentsOf(g)) >= 2
        THEN /\ g.qubits = <<ArgumentsOf(g)[Len(ArgumentsOf(g))]>>
             /\ g.control_qubits
                  = SubSeq(ArgumentsOf(g), 1, Len(ArgumentsOf(g)) - 1)
        ELSE g.control_qubits = <<>>

\* C19, in the code: the SWAP statement on qubits 0 and 1 is extracted with
\* both qubits as targets and no control
C19_SwapHasTwoTargets ==
  /\ Lang("a") \in {"qiskit", "openqasm"}
  /\ \E i \in 1..Len(calls["a"].cur.gates) :
       /\ calls["a"].cur.gates[i].gate_type = "SWAP"
       /\ calls["a"].cur.gates[i].qubits = <<0, 1>>
       /\ calls["a"].cur.gates[i].control_qubits = <<>>


(***************************************************************************)
(* MeasSpec: one request whose text is a Qiskit declaration followed by    *)
(* measure statements.                                                     *)
(***************************************************************************)
MeasBase ==
  <<"qc", " ", "=", " ", "QuantumCircuit", "(", "2", ",", " ", "2", ")">>

MeasLines ==
  { <<"qc", ".", "measure", "(", "0", ",", " ", "1", ")">>,
    <<"qc", ".", "measure", "(", "[", "0", "]", ",", " ", "[", "1", "]", ")">>,
    <<"qc", ".", "measure", "(", "[", "0", ",", "1", "]", ",", " ", "[", "0",
      ",", "1", "]", ")">>,
    <<"qc", ".", "measure", "(", "q", ",", " ", "c", ")">>,
    <<"qc", ".", "measure", "(", "0", ",", " ", "0", ")">>,
    <<"qc", ".", "cx", "(", "0", ",", " ", "1", ")">> }

MeasTexts ==
  {<<MeasBase>> \o k : k \in LinesUpTo(MeasLines, MaxKeyLines)}
    \cup {<<l>> : l \in MeasLines}

SubmitMeas == ncalls = 0 /\ \E code \in MeasTexts : Submit("a", code)

MeasNext == SubmitMeas \/ Step("a")

MeasSpec == Init /\ [][MeasNext]_vars

\* the position of the first comma outside brackets in toks[i..], or 0
RECURSIVE OuterComma(_, _, _)
OuterComma(toks, i, depth) ==
  IF i > Len(toks) THEN 0
  ELSE IF toks[i] = "," /\ depth = 0 THEN i
  ELSE OuterComma(toks, i + 1,
                  depth + (IF toks[i] = "[" THEN 1
                           ELSE IF toks[i] = "]" THEN -1 ELSE 0))

\* the two arguments of the measure call that ends the line toks
MeasureArguments(toks) ==
  LET open == IndexOf(toks, "(", 1)
      inner == SubSeq(toks, open + 1, Len(toks) - 1)
      k == OuterComma(inner, 1, 0)
  IN <<SubSeq(inner, 1, k - 1), SubSeq(inner, k + 1, Len(inner))>>

\* the integers written in an argument, in order
RECURSIVE IntegersIn(_)
IntegersIn(arg) ==
  IF arg = <<>> THEN <<>>
  ELSE (IF IsDigits(arg[1]) THEN <<IntOf(arg[1])>> ELSE <<>>)
       \o IntegersIn(Tail(arg))

\* the argument names a register
Symbolic(arg) == \E k \in 1..Len(arg) : IsWord(arg[k]) /\ ~IsDigits(arg[k])

\* C20: in Qiskit extraction a two-argument measure call whose arguments
\* are integers or bracketed lists of integers yields a Measurement whose
\* qubit and classical indices are the integers of the first and of the
\* second argument; the indices are empty only for a symbolic argument.
C20_IndicesOfBothArguments ==
  Lang("a") = "qiskit" =>
    \A i \in 1..Len(calls["a"].cur.measurements) :
      LET m == calls["a"].cur.measurements[i]
          args == MeasureArguments(calls["a"].code[m.line_number])
      IN IF Symbolic(args[1]) \/ Symbolic(args[2])
         THEN m.qubit_indices = <<>> /\ m.classical_indices = <<>>
         ELSE /\ m.qubit_indices = IntegersIn(args[1])
              /\ m.classical_indices = IntegersIn(args[2])

\* C20, in the code: measure([0,1], [0,1]) is extracted without indices
C20_ListArgumentsLost ==
  /\ Lang("a") = "qiskit"
  /\ \E i \in 1..Len(calls["a"].cur.measurements) :
       LET m == calls["a"].cur.measurements[i]
           args == MeasureArguments(calls["a"].code[m.line_number])
       IN /\ IntegersIn(args[1]) = <<0, 1>>
          /\ IntegersIn(args[2]) = <<0, 1>>
          /\ m.qubit_indices = <<>>
          /\ m.classical_indices = <<>>


(***************************************************************************)
(* ExtSpec: one request whose text is a declaration line of one of the     *)
(* four quantum notations followed by comment lines, statements that start *)
(* with a keyword or with a word that begins like one, gate statements and *)
(* a grid qubit.                                                           *)
(***************************************************************************)
ExtBases ==
  { <<"qc", " ", "=", " ", "QuantumCircuit", "(", "2", ",", " ", "2", ")">>,
    <<"qreg", " ", "q", "[", "2", "]", ";">>,
    <<"using", " ", "(", "qs", " ", "=", " ", "Qubit", "[", "2", "]", ")",
      " ", "{">>,
    <<"q", " ", "=", " ", "cirq", ".", "LineQubit", ".", "range", "(", "3",
      ")">> }

ExtLines ==
  { <<"//", " ", "note">>,
    <<"#", " ", "note">>,
    <<"format", "(", "x", ")">>,
    <<"for", " ", "i", " ", "in", " ", "range", "(", "3", ")", ":">>,
    <<"iffy", " ", "=", " ", "1">>,
    <<"if", " ", "x", ":">>,
    <<"h", " ", "q", "[", "0", "]", ";", " ", "h", " ", "q", "[", "1", "]",
      ";">>,
    <<"h", " ", "q", "[", "0", "]", ";">>,
    <<"a", " ", "=", " ", "cirq", ".", "GridQubit", "(", "0", ",", " ", "1",
      ")">> }

ExtTexts ==
  {<<b>> \o k : b \in ExtBases, k \in LinesUpTo(ExtLines, MaxKeyLines)}
    \cup {<<l>> : l \in ExtLines}

SubmitExt == ncalls = 0 /\ \E code \in ExtTexts : Submit("a", code)

ExtNext == SubmitExt \/ Step("a")

ExtSpec == Init /\ [][ExtNext]_vars

\* the representation of the call of thread t is built and its metadata
\* are taken
Built(t) == calls[t].pc \in {"analyze", "result"} \/ Answered(t)

\* the comment marker of a notation
CommentMarker(lang) == IF lang \in {"openqasm", "qsharp"} THEN "//" ELSE "#"

\* the lines of text that are neither blank nor comments of notation lang
RECURSIVE CodeLineCount(_, _)
CodeLineCount(lang, text) ==
  IF text = <<>> THEN 0
  ELSE (IF FirstTok(text[1]) \notin {"", CommentMarker(lang)} THEN 1 ELSE 0)
       + CodeLineCount(lang, Tail(text))

\* C21: for every notation lines_of_code is the number of lines that are
\* neither blank nor comment lines of that notation ('//' in OpenQASM and
\* Q#, '#' in the Python-based notations).
C21_CodeLinesOnly ==
  Built("a") =>
    calls["a"].metadata.lines_of_code = CodeLineCount(Lang("a"), calls["a"].code)

\* C21, in the code: an OpenQASM or Q# text with a '//' comment line whose
\* lines_of_code counts the comment
C21_SlashCommentCounted ==
  /\ Built("a")
  /\ Lang("a") \in {"openqasm", "qsharp"}
  /\ \E i \in 1..Len(calls["a"].code) : FirstTok(calls["a"].code[i]) = "//"
  /\ calls["a"].metadata.lines_of_code = Len(calls["a"].code)


\* the lines of text whose first token, lowercased, is one of the words ws
RECURSIVE FirstTokenCount(_, _)
FirstTokenCount(text, ws) ==
  IF text = <<>> THEN 0
  ELSE (IF Lower(FirstTok(text[1])) \in ws THEN 1 ELSE 0)
       + FirstTokenCount(Tail(text), ws)

\* C22: a line adds 1 to the loop count (to the conditional count) exactly
\* when its first token, case-insensitively, is one of for, while, repeat,
\* loop (if, else, elif, switch, case); a first token that only begins with
\* a keyword does not count.
C22_FirstTokenIsKeyword ==
  Built("a") /\ Lang("a") # "openqasm" =>
    /\ calls["a"].metadata.loop_count =
         FirstTokenCount(calls["a"].code, {"for", "while", "repeat", "loop"})
    /\ calls["a"].metadata.conditional_count =
         FirstTokenCount(calls["a"].code,
                         {"if", "else", "elif", "switch", "case"})

\* C22, in the code: the statements format(x) and iffy = 1 are counted as
\* a loop and as a conditional
C22_PrefixCounted ==
  /\ Built("a")
  /\ Len(calls["a"].code) = 3
  /\ FirstTok(calls["a"].code[2]) = "format"
  /\ FirstTok(calls["a"].code[3]) = "iffy"
  /\ calls["a"].metadata.loop_count = 1
  /\ calls["a"].metadata.conditional_count = 1


\* the statements of a line: the runs of tokens each ended by a ";"
RECURSIVE StatementsOf(_, _)
StatementsOf(toks, cur) ==
  IF toks = <<>> THEN <<>>
  ELSE IF toks[1] = ";" THEN <<cur>> \o StatementsOf(Tail(toks), <<>>)
  ELSE StatementsOf(Tail(toks), Append(cur, toks[1]))

\* the kinds of the gate statements of a text, in textual order: the keyword
\* is in the gate table and not a declaration, measurement or directive
RECURSIVE KindsOfStatements(_)
KindsOfStatements(sts) ==
  IF sts = <<>> THEN <<>>
  ELSE LET kw == FirstTok(sts[1])
           kind == IF kw \in QasmSkipped \cup {""} THEN "none"
                   ELSE OpenQASMGateMapping(Lower(kw))
       IN (IF kind = "none" THEN <<>> ELSE <<kind>>)
          \o KindsOfStatements(Tail(sts))

RECURSIVE GateStatementKinds(_)
GateStatementKinds(text) ==
  IF text = <<>> THEN <<>>
  ELSE KindsOfStatements(StatementsOf(text[1], <<>>))
       \o GateStatementKinds(Tail(text))

\* C23: the gates extracted from an OpenQASM text are its gate statements,
\* one gate each and in textual order, however the statements are laid out
\* on lines; "h q[0]; h q[1];" on one line gives two H gates.
C23_OneGatePerStatement ==
  Built("a") /\ Lang("a") = "openqasm" =>
    KindsOf(calls["a"].unified_ast) = GateStatementKinds(calls["a"].code)

\* C23, in the code: two statements on one line give one gate
C23_SecondStatementLost ==
  /\ Built("a")
  /\ Lang("a") = "openqasm"
  /\ \E i \in 1..Len(calls["a"].code) :
       Len(KindsOfStatements(StatementsOf(calls["a"].code[i], <<>>))) = 2
  /\ Len(GateStatementKinds(calls["a"].code)) = 2
  /\ KindsOf(calls["a"].unified_ast) = <<"H">>


\* the sum of N over the LineQubit.range(N) calls of a text
RECURSIVE LineRangeSum(_)
LineRangeSum(text) ==
  IF text = <<>> THEN 0
  ELSE LET lm == Search(LineQubitPattern, text[1]) IN
       (IF lm = <<>> THEN 0 ELSE IntOf(text[1][lm[9]]))
       + LineRangeSum(Tail(text))

\* the number of GridQubit(r, c) constructor occurrences of a text
RECURSIVE GridQubitCount(_)
GridQubitCount(text) ==
  IF text = <<>> THEN 0
  ELSE CountMatches(GridQubitFindPattern, text[1], 1)
       + GridQubitCount(Tail(text))

\* C24: the total qubit count of the quantum registers extracted from a Cirq
\* text is the sum of N over its LineQubit.range(N) calls plus the number of
\* its GridQubit constructor occurrences, also when both occur in the text.
C24_RangesPlusGridQubits ==
  Built("a") /\ Lang("a") = "cirq" =>
    SizeSum(calls["a"].unified_ast.quantum_registers) =
      LineRangeSum(calls["a"].code) + GridQubitCount(calls["a"].code)

\* C24, in the code: a grid qubit beside a line range is in no register
C24_GridQubitDropped ==
  /\ Built("a")
  /\ Lang("a") = "cirq"
  /\ LineRangeSum(calls["a"].code) = 3
  /\ GridQubitCount(calls["a"].code) = 1
  /\ SizeSum(calls["a"].unified_ast.quantum_registers) = 3
  /\ calls["a"].unified_ast.total_qubits = 3


\* the scores of the notations, in order, on the text of call t
ScoresOf(t) ==
  LET toks == Flat(calls[t].code) IN
  <<Score(QuantumLangs[1], toks), Score(QuantumLangs[2], toks),
    Score(QuantumLangs[3], toks), Score(QuantumLangs[4], toks)>>

\* the notations whose score is the highest of sc and above 0
TopScored(sc) ==
  {n \in 1..Len(sc) : sc[n] > 0 /\ \A m \in 1..Len(sc) : sc[m] <= sc[n]}

\* C25: when some notation has a score above 0, detect returns a notation
\* of maximal score, and among several of maximal score the first in the
\* order qiskit, cirq, qsharp, openqasm.
C25_FirstOfTopScore ==
  \A t \in Threads :
    Detected(t) =>
      LET top == TopScored(ScoresOf(t)) IN
      top # {} =>
        \E n \in top :
          /\ calls[t].lang_result.language = QuantumLangs[n]
          /\ \A m \in top : n <= m

\* C25 happens: two notations share the highest score and the earlier one
\* is returned
C25_TieDecidedByOrder ==
  \E t \in Threads :
    /\ Detected(t)
    /\ LET top == TopScored(ScoresOf(t)) IN
       /\ Cardinality(top) >= 2
       /\ \E n \in top :
            /\ calls[t].lang_result.language = QuantumLangs[n]
            /\ \A m \in top : n <= m

\* the entanglement score of the gate list of ast with 2 or fewer qubits:
\* the entangling-gate ratio, in thousandths
BaseEntanglingRatio(ast) ==
  Min(Round3(EntanglingGateCount(ast), Max(Len(ast.gates), 1)), 1000)

C27_AssemblyNeverFails ==
  \A t \in Threads :
    Done(t) /\ calls[t].lang_result.is_supported
            /\ ( calls[t].quantum_metrics.computed
                 \/ calls[t].classical_metrics.computed )
      => calls[t].outcome.status = 200

\* C27, in the code: a quantum text with no register has problem size 0 and
\* the assembly of its result fails
C27_NoRegisterFails ==
  /\ Done("a")
  /\ Lang("a") \in QuantumNotations
  /\ calls["a"].unified_ast.quantum_registers = <<>>
  /\ calls["a"].quantum_metrics.qubits_required = 0
  /\ calls["a"].outcome.status = 500
  /\ calls["a"].outcome.result = <<>>


\* C28: on one parser instance used sequentially, parse(text) returns what
\* a freshly constructed instance returns for text, whatever texts were
\* parsed on the instance before.
C28_ParseAsOnFreshInstance ==
  calls["a"].pc = "build" =>
    LET alone == ParseAlone(Lang("a"), calls["a"].code) IN
    /\ ~alone.raised
    /\ calls["a"].parsed_data = alone.value
    /\ calls["a"].cur = alone.value

\* C28 witness: a parse that found a register, on the instance that parsed
\* another text of the notation in the call before
C28_AfterAnotherText ==
  /\ calls["a"].pc = "build"
  /\ calls["a"].parsed_data = ParseAlone(Lang("a"), calls["a"].code).value
  /\ Len(calls["a"].parsed_data.registers.quantum) > 0
  /\ Len(log) >= 1
  /\ log[Len(log)].text # calls["a"].code
  /\ parsers[Lang("a")].code = calls["a"].code
  /\ Detect(log[Len(log)].text).language = Lang("a")


\* C29: the memory estimate is never 0 and does not decrease when the qubit
\* count grows by one, also from 0 qubits to 1 (thousandths of a megabyte).
C29_MemoryPositiveMonotone ==
  LET n == qmetrics.qubits_required IN
  /\ MemoryRequirement(n) > 0
  /\ MemoryRequirement(n) <= MemoryRequirement(n + 1)

\* C29, in the code: the result assembled for one qubit carries the estimate
\* 0.0 MB, below the 0.01 MB of no qubits
C29_OneQubitIsZero ==
  /\ uast.total_qubits = 1
  /\ qmetrics.qubits_required = 1
  /\ assembled.status = 200
  /\ assembled.result.memory_requirement_mb = 0
  /\ MemoryRequirement(0) = 10
  /\ MemoryRequirement(1) = 0


\* C30: a measurement call is recorded in the measurement list only, never
\* also as a gate operation: no gate has the kind MEASURE, and the single
\* and two-qubit gate counts add up to gate_count minus the BARRIER, RESET
\* and CUSTOM gates; measure(0, 0) leaves the gate count and the CX ratio
\* as they are.
C30_MeasureIsNoGate ==
  PastAnalysis("a") /\ calls["a"].quantum_metrics.computed =>
    LET ast == calls["a"].unified_ast
        m == calls["a"].quantum_metrics
    IN /\ CountKinds(ast.gates, {"MEASURE"}) = 0
       /\ m.single_qubit_gates + m.two_qubit_gates =
            m.gate_count - CountKinds(ast.gates, {"BARRIER", "RESET", "CUSTOM"})

\* C30, in the code: cx(0, 1) followed by measure(0, 0) gives two gates, CX
\* and MEASURE, and a CX ratio of 1/2
C30_MeasureCountedAsGate ==
  /\ PastAnalysis("a")
  /\ calls["a"].code =
       <<MeasBase, <<"qc", ".", "cx", "(", "0", ",", " ", "1", ")">>,
         <<"qc", ".", "measure", "(", "0", ",", " ", "0", ")">> >>
  /\ KindsOf(calls["a"].unified_ast) = <<"CX", "MEASURE">>
  /\ Len(calls["a"].unified_ast.measurements) = 1
  /\ calls["a"].quantum_metrics.gate_count = 2
  /\ calls["a"].quantum_metrics.cx_gate_ratio = [num |-> 1, den |-> 2]
  /\ calls["a"].quantum_metrics.single_qubit_gates = 0
  /\ calls["a"].quantum_metrics.two_qubit_gates = 1

=============================================================================
